---- MODULE Spec2Model ----
(***************************************************************************)
(* Model of the include-resolution core of vite-plugin-ssi (src/ssi.ts,    *)
(* src/file-types.ts).  Text and paths are sequences of one-character      *)
(* strings, so that the directive regex, the path library calls and the    *)
(* offset-based splicing are computed the way the code computes them.      *)
(* processSsiRecursive is an explicit call stack: one frame per call, one  *)
(* action per step of its body.                                            *)
(***************************************************************************)
EXTENDS Integers, Sequences, FiniteSets, TLC

(***************************************************************************)
(* String helpers                                                          *)
(***************************************************************************)

\* s.slice(from) / s.slice(from, to) with 0-based offsets (from inclusive, to exclusive)
Slice(s, from, to) == SubSeq(s, from + 1, to)

SliceFrom(s, from) == SubSeq(s, from + 1, Len(s))

\* lit occurs in s at 1-based position i
HasPrefixAt(s, i, lit) ==
    /\ i >= 1
    /\ i + Len(lit) - 1 <= Len(s)
    /\ \A k \in 1..Len(lit) : s[i + k - 1] = lit[k]

\* s.endsWith(suffix)
EndsWith(s, suffix) ==
    Len(s) >= Len(suffix) /\ SubSeq(s, Len(s) - Len(suffix) + 1, Len(s)) = suffix

\* s.split(c)[0]: what precedes the first c
BeforeFirst(s, c) ==
    IF \E k \in 1..Len(s) : s[k] = c
    THEN SubSeq(s, 1, (CHOOSE k \in 1..Len(s) :
                          s[k] = c /\ \A j \in 1..(k - 1) : s[j] # c) - 1)
    ELSE s

\* s contains lit somewhere
Contains(s, lit) == \E i \in 1..Len(s) : HasPrefixAt(s, i, lit)

\* number of positions at which lit occurs in s
CountOccurrences(s, lit) == Cardinality({i \in 1..Len(s) : HasPrefixAt(s, i, lit)})

RECURSIVE Flatten(_)
Flatten(ss) == IF ss = <<>> THEN <<>> ELSE Head(ss) \o Flatten(Tail(ss))

\* parts.join(sep)
RECURSIVE JoinWith(_, _)
JoinWith(parts, sep) ==
    IF parts = <<>> THEN <<>>
    ELSE IF Len(parts) = 1 THEN parts[1]
    ELSE parts[1] \o sep \o JoinWith(Tail(parts), sep)

Digits == <<"0","1","2","3","4","5","6","7","8","9">>

\* `${n}` for an integer n
RECURSIVE IntToStr(_)
IntToStr(n) ==
    IF n < 0 THEN <<"-">> \o IntToStr(0 - n)
    ELSE IF n < 10 THEN <<Digits[n + 1]>>
    ELSE IntToStr(n \div 10) \o <<Digits[(n % 10) + 1]>>

UpperChars == <<"A","B","C","D","E","F","G","H","I","J","K","L","M","N","O","P","Q","R","S","T","U","V","W","X","Y","Z">>

LowerChars == <<"a","b","c","d","e","f","g","h","i","j","k","l","m","n","o","p","q","r","s","t","u","v","w","x","y","z">>

\* The elements of a string are its UTF-16 code units. An ASCII character is
\* written as itself, any other code unit by its name "U+XXXX". The alphabet
\* of the model is ASCII and the code units named in this module.

\* cased characters outside ASCII and what toLowerCase makes of them: a
\* Latin-1 letter, the Kelvin and Angstrom signs, which become ASCII k and a
\* Latin-1 letter, and I with dot above, which becomes two code units
NonAsciiUpper == <<"U+00C9", "U+212A", "U+212B", "U+0130">>

NonAsciiLower == <<<<"U+00E9">>, <<"k">>, <<"U+00E5">>, <<"i", "U+0307">>>>

\* the code units toLowerCase puts in the place of the code unit c
LowerChar(c) ==
    IF \E k \in 1..Len(UpperChars) : UpperChars[k] = c
    THEN <<LowerChars[CHOOSE k \in 1..Len(UpperChars) : UpperChars[k] = c]>>
    ELSE IF \E k \in 1..Len(NonAsciiUpper) : NonAsciiUpper[k] = c
    THEN NonAsciiLower[CHOOSE k \in 1..Len(NonAsciiUpper) : NonAsciiUpper[k] = c]
    ELSE <<c>>

\* s.toLowerCase()
ToLowerCase(s) == Flatten([k \in 1..Len(s) |-> LowerChar(s[k])])

(***************************************************************************)
(* Node's posix path library, as far as ssi.ts uses it                     *)
(***************************************************************************)

\* process.cwd(): relative arguments of path.resolve are resolved against it
Cwd == <<"/","r">>

IsAbsolute(p) == Len(p) > 0 /\ p[1] = "/"

\* p.split('/')
RECURSIVE SplitFrom(_, _, _)
SplitFrom(s, i, cur) ==
    IF i > Len(s) THEN <<cur>>
    ELSE IF s[i] = "/" THEN <<cur>> \o SplitFrom(s, i + 1, <<>>)
    ELSE SplitFrom(s, i + 1, Append(cur, s[i]))

SplitSlash(s) == SplitFrom(s, 1, <<>>)

\* normalizeString of an absolute path: empty and "." segments are dropped,
\* ".." removes the previous segment and is dropped at the root
RECURSIVE NormSegs(_, _, _)
NormSegs(segs, i, acc) ==
    IF i > Len(segs) THEN acc
    ELSE IF segs[i] = <<>> \/ segs[i] = <<".">> THEN NormSegs(segs, i + 1, acc)
    ELSE IF segs[i] = <<".", ".">>
         THEN NormSegs(segs, i + 1,
                       IF Len(acc) > 0 THEN SubSeq(acc, 1, Len(acc) - 1) ELSE acc)
    ELSE NormSegs(segs, i + 1, Append(acc, segs[i]))

RECURSIVE JoinSegs(_)
JoinSegs(segs) ==
    IF segs = <<>> THEN <<>> ELSE <<"/">> \o Head(segs) \o JoinSegs(Tail(segs))

AbsFromSegs(segs) == IF segs = <<>> THEN <<"/">> ELSE JoinSegs(segs)

\* path.resolve(p): absolute, normalized, no trailing separator
PathResolve1(p) ==
    LET full == IF IsAbsolute(p) THEN p ELSE Cwd \o <<"/">> \o p
    IN  AbsFromSegs(NormSegs(SplitSlash(full), 1, <<>>))

\* path.resolve(from, to)
PathResolve2(from, to) ==
    IF IsAbsolute(to) THEN PathResolve1(to)
    ELSE PathResolve1(from \o <<"/">> \o to)

\* path.join(a, b) for an absolute a: normalized, a trailing separator is kept
PathJoin(a, b) ==
    LET joined == IF b = <<>> THEN a ELSE a \o <<"/">> \o b
        body   == AbsFromSegs(NormSegs(SplitSlash(joined), 1, <<>>))
    IN  IF joined[Len(joined)] = "/" /\ body # <<"/">> THEN body \o <<"/">> ELSE body

\* the number of leading segments two absolute paths share
RECURSIVE CommonSegs(_, _, _)
CommonSegs(a, b, n) ==
    IF n < Len(a) /\ n < Len(b) /\ a[n + 1] = b[n + 1]
    THEN CommonSegs(a, b, n + 1)
    ELSE n

\* path.relative(from, to) for absolute paths: one ".." for each segment of
\* from below the shared directories, then the rest of to
PathRelative(from, to) ==
    LET f == NormSegs(SplitSlash(from), 1, <<>>)
        t == NormSegs(SplitSlash(to), 1, <<>>)
        n == CommonSegs(f, t, 0)
    IN  JoinWith([k \in 1..(Len(f) - n) |-> <<".", ".">>]
                     \o SubSeq(t, n + 1, Len(t)), <<"/">>)

\* path.dirname(p): scan from the end for the first separator that follows a
\* non-separator; -1 when there is none
RECURSIVE DirnameEnd(_, _, _)
DirnameEnd(p, i, matchedSlash) ==
    IF i < 1 THEN -1
    ELSE IF p[i + 1] = "/"
         THEN IF ~matchedSlash THEN i ELSE DirnameEnd(p, i - 1, matchedSlash)
         ELSE DirnameEnd(p, i - 1, FALSE)

PathDirname(p) ==
    IF Len(p) = 0 THEN <<".">>
    ELSE LET hasRoot == p[1] = "/"
             end     == DirnameEnd(p, Len(p) - 1, TRUE)
         IN  IF end = -1 THEN (IF hasRoot THEN <<"/">> ELSE <<".">>)
             ELSE IF hasRoot /\ end = 1 THEN <<"/", "/">>
             ELSE Slice(p, 0, end)

(***************************************************************************)
(* src/ssi.ts: path resolver and normalizer                                *)
(***************************************************************************)

\* every target is resolved against the project root, wherever the file that
\* holds the directive lies
resolveIncludePathFromRoot(virtualPath, includingFile, root) ==
    IF virtualPath[1] = "/" THEN PathJoin(root, SliceFrom(virtualPath, 1))
    ELSE PathResolve2(root, virtualPath)

\* resolveIncludePath(virtualPath, includingFile, root)
resolveIncludePath(virtualPath, includingFile, root) ==
    IF IsAbsolute(virtualPath)
    THEN PathJoin(root, SliceFrom(virtualPath, 1))
    ELSE PathResolve2(PathDirname(includingFile), virtualPath)

\* .replace(/\\/g, '/')
FoldBackslash(s) == [k \in 1..Len(s) |-> IF s[k] = "\\" THEN "/" ELSE s[k]]

\* normalizePath(filePath)
normalizePath(filePath) == FoldBackslash(PathResolve1(filePath))

(***************************************************************************)
(* src/file-types.ts                                                       *)
(***************************************************************************)

DEFAULT_FILE_TYPE_MAP ==
    (<<"h","t","m","l">> :>
        <<<<".","h","t","m","l">>,
          <<".","h","t","m">>,
          <<".","s","h","t","m","l">>>>) @@
    (<<"j","s">> :>
        <<<<".","j","s">>,
          <<".","m","j","s">>,
          <<".","c","j","s">>,
          <<".","t","s">>,
          <<".","t","s","x">>,
          <<".","j","s","x">>,
          <<".","m","t","s">>,
          <<".","c","t","s">>>>) @@
    (<<"c","s","s">> :>
        <<<<".","c","s","s">>,
          <<".","s","c","s","s">>,
          <<".","s","a","s","s">>,
          <<".","l","e","s","s">>,
          <<".","s","t","y","l">>>>) @@
    (<<"j","s","o","n">> :>
        <<<<".","j","s","o","n">>,
          <<".","j","s","o","n","c">>>>) @@
    (<<"x","m","l">> :>
        <<<<".","x","m","l">>,
          <<".","x","h","t","m","l">>>>) @@
    (<<"t","e","x","t">> :>
        <<<<".","t","x","t">>,
          <<".","m","d">>,
          <<".","m","a","r","k","d","o","w","n">>>>)

\* filePath.lastIndexOf('.'), 0-based, -1 when there is no dot
LastIndexOfDot(filePath) ==
    IF \E k \in 1..Len(filePath) : filePath[k] = "."
    THEN (CHOOSE k \in 1..Len(filePath) :
             /\ filePath[k] = "."
             /\ \A j \in (k + 1)..Len(filePath) : filePath[j] # ".") - 1
    ELSE -1

\* getFileExtension(filePath); null is modelled as the empty string
getFileExtension(filePath) ==
    LET lastDot == LastIndexOfDot(filePath)
        ext     == SliceFrom(filePath, lastDot)
    IN  IF lastDot = -1 THEN <<>>
        ELSE IF Len(ext) > 1 THEN ToLowerCase(ext) ELSE <<>>

LitConstructor == <<"c","o","n","s","t","r","u","c","t","o","r">>

LitProto == <<"_","_","p","r","o","t","o","_","_">>

\* the map is an object literal: what it has no entry of its own for it
\* inherits from Object.prototype. Of the inherited names these two are in
\* lower case, as every name is that the map is asked for
InheritedNames == {LitConstructor, LitProto}

\* fileTypeMap[name] || []: the list of the map's own entry; for an inherited
\* name a function or an object, which is no array; else the empty list
ExtensionsOf(fileTypeMap, name) ==
    IF name \in DOMAIN fileTypeMap
    THEN [isArray |-> TRUE, items |-> fileTypeMap[name]]
    ELSE IF name \in InheritedNames
    THEN [isArray |-> FALSE, items |-> <<>>]
    ELSE [isArray |-> TRUE, items |-> <<>>]

\* the loop of matchesFileType from the t-th type name on: "true" at the
\* first list that has ext, "TypeError" at a value that has no includes
RECURSIVE MatchesFrom(_, _, _, _)
MatchesFrom(ext, fileTypes, fileTypeMap, t) ==
    IF t > Len(fileTypes) THEN "false"
    ELSE LET extensions == ExtensionsOf(fileTypeMap, ToLowerCase(fileTypes[t]))
         IN  IF ~extensions.isArray THEN "TypeError"
             ELSE IF \E k \in 1..Len(extensions.items) : extensions.items[k] = ext
             THEN "true"
             ELSE MatchesFrom(ext, fileTypes, fileTypeMap, t + 1)

\* matchesFileType(filePath, fileTypes, fileTypeMap): "true", "false", or
\* "TypeError" when it throws
matchesFileType(filePath, fileTypes, fileTypeMap) ==
    LET ext == getFileExtension(filePath)
    IN  IF ext = <<>> THEN "false"
        ELSE MatchesFrom(ext, fileTypes, fileTypeMap, 1)

(***************************************************************************)
(* src/ssi.ts: directive scanner                                           *)
(* /<!--#include\s+virtual\s*=\s*"([^"]+)"\s*-->/g                         *)
(***************************************************************************)

LitInclude == <<"<","!","-","-","#","i","n","c","l","u","d","e">>

LitVirtual == <<"v","i","r","t","u","a","l">>

LitEquals == <<"=">>

LitQuote == <<"\"">>

LitClose == <<"-","-",">">>

\* \s: [\t\n\v\f\r \u00a0\u1680\u2000-\u200a\u2028\u2029\u202f\u205f\u3000\ufeff]
IsSpace(c) ==
    c \in {" ", "\t", "\n", "\r", "\f", "U+000B", "U+00A0", "U+1680",
           "U+2000", "U+2001", "U+2002", "U+2003", "U+2004", "U+2005",
           "U+2006", "U+2007", "U+2008", "U+2009", "U+200A", "U+2028",
           "U+2029", "U+202F", "U+205F", "U+3000", "U+FEFF"}

\* first position >= i that holds no whitespace
RECURSIVE SkipSpace(_, _)
SkipSpace(s, i) ==
    IF i <= Len(s) /\ IsSpace(s[i]) THEN SkipSpace(s, i + 1) ELSE i

\* first position >= i that holds a double quote (Len(s) + 1 when none)
RECURSIVE SkipNonQuote(_, _)
SkipNonQuote(s, i) ==
    IF i <= Len(s) /\ s[i] # "\"" THEN SkipNonQuote(s, i + 1) ELSE i

\* The regex anchored at 1-based position i.  No alternative of the pattern
\* overlaps the token that follows it, so the greedy match is the only one.
MatchAt(s, i) ==
    LET afterInclude == i + Len(LitInclude)
        atVirtual    == SkipSpace(s, afterInclude)
        atEquals     == SkipSpace(s, atVirtual + Len(LitVirtual))
        atQuote      == SkipSpace(s, atEquals + 1)
        valueStart   == atQuote + 1
        valueEnd     == SkipNonQuote(s, valueStart)
        atClose      == SkipSpace(s, valueEnd + 1)
        ok == /\ HasPrefixAt(s, i, LitInclude)
              /\ atVirtual > afterInclude
              /\ HasPrefixAt(s, atVirtual, LitVirtual)
              /\ HasPrefixAt(s, atEquals, LitEquals)
              /\ HasPrefixAt(s, atQuote, LitQuote)
              /\ valueEnd > valueStart
              /\ valueEnd <= Len(s)
              /\ HasPrefixAt(s, atClose, LitClose)
    IN  IF ok
        THEN [ok |-> TRUE,
              index |-> i - 1,
              length |-> atClose + Len(LitClose) - i,
              virtualPath |-> SubSeq(s, valueStart, valueEnd - 1)]
        ELSE [ok |-> FALSE, index |-> 0, length |-> 0, virtualPath |-> <<>>]

\* the exec loop: each exec returns the leftmost match that starts at
\* lastIndex (1-based position i) or later, and moves lastIndex past it
RECURSIVE ScanFrom(_, _)
ScanFrom(content, i) ==
    LET starts == {j \in i..Len(content) : MatchAt(content, j).ok}
    IN  IF starts = {} THEN <<>>
        ELSE LET first == CHOOSE j \in starts : \A k \in starts : j <= k
                 m     == MatchAt(content, first)
             IN  <<[index |-> m.index, length |-> m.length,
                    virtualPath |-> m.virtualPath]>>
                 \o ScanFrom(content, first + m.length)

ScanDirectives(content) == ScanFrom(content, 1)

(***************************************************************************)
(* src/ssi.ts: diagnostics                                                 *)
(***************************************************************************)

LitCircular == <<"<","!","-","-"," ","S","S","I"," ","E","r","r","o","r",":"," ","C","i","r","c","u","l","a","r"," ","i","n","c","l","u","d","e"," ","d","e","t","e","c","t","e","d",":"," ">>

LitArrow == <<" ","-",">"," ">>

LitEnd == <<" ","-","-",">">>

LitMaxDepth == <<"<","!","-","-"," ","S","S","I"," ","E","r","r","o","r",":"," ","M","a","x","i","m","u","m"," ","i","n","c","l","u","d","e"," ","d","e","p","t","h"," ","(">>

LitExceeded == <<")"," ","e","x","c","e","e","d","e","d"," ","-","-",">">>

LitNotFound == <<"<","!","-","-"," ","S","S","I"," ","E","r","r","o","r",":"," ","F","i","l","e"," ","n","o","t"," ","f","o","u","n","d",":"," ">>

\* seenArray.indexOf(p), 1-based; p is known to be in seen
IndexOf(seen, p) ==
    CHOOSE k \in 1..Len(seen) : seen[k] = p /\ \A j \in 1..(k - 1) : seen[j] # p

\* the whole path from the top-level document, instead of the slice
CycleChainFromTop(seen, normalizedPath) == Append(seen, normalizedPath)

\* seenArray.slice(cycleStart).concat(normalizedPath)
CycleChain(seen, normalizedPath) ==
    Append(SubSeq(seen, IndexOf(seen, normalizedPath), Len(seen)), normalizedPath)

CircularDiagnostic(seen, normalizedPath) ==
    LitCircular \o JoinWith(CycleChain(seen, normalizedPath), LitArrow) \o LitEnd

\* the diagnostic numbering the level that was cut off
MaxDepthDiagnosticOfLevel(maxDepth) ==
    LitMaxDepth \o IntToStr(maxDepth + 1) \o LitExceeded

MaxDepthDiagnostic(maxDepth) == LitMaxDepth \o IntToStr(maxDepth) \o LitExceeded

FileNotFoundDiagnostic(normalizedResolvedPath) ==
    LitNotFound \o normalizedResolvedPath \o LitEnd

(***************************************************************************)
(* src/ssi.ts: processSsiRecursive, pure parts                             *)
(***************************************************************************)

\* const shouldProcessSsi = includeFileTypes.length === 0 ? false : matchesFileType(...)
\* "true", "false", or "TypeError" when matchesFileType throws
\* an empty list of types stands for the markup types
shouldProcessSsiDefaultHtml(resolvedPath, includeFileTypes, fileTypeMap) ==
    IF Len(includeFileTypes) = 0
    THEN matchesFileType(resolvedPath, <<<<"h","t","m","l">>>>, fileTypeMap)
    ELSE matchesFileType(resolvedPath, includeFileTypes, fileTypeMap)

shouldProcessSsi(resolvedPath, includeFileTypes, fileTypeMap) ==
    IF Len(includeFileTypes) = 0 THEN "false"
    ELSE matchesFileType(resolvedPath, includeFileTypes, fileTypeMap)

\* result = result.slice(0, start) + replacement + result.slice(end)
Splice(result, r) ==
    Slice(result, 0, r.start) \o r.replacement \o SliceFrom(result, r.end)

\* the list applied from its last entry to its first: from the start of the
\* document on, at offsets that earlier splices have moved
RECURSIVE ApplyReplacementsAscending(_, _)
ApplyReplacementsAscending(result, replacements) ==
    IF replacements = <<>> THEN result
    ELSE ApplyReplacementsAscending(
             Splice(result, replacements[Len(replacements)]),
             SubSeq(replacements, 1, Len(replacements) - 1))

\* for (const { start, end, replacement } of replacements) ...: the list is
\* applied in the order in which it was built
RECURSIVE ApplyReplacements(_, _)
ApplyReplacements(result, replacements) ==
    IF replacements = <<>> THEN result
    ELSE ApplyReplacements(Splice(result, Head(replacements)), Tail(replacements))

\* seen.has(normalizedPath)
SeenHas(seen, normalizedPath) == \E k \in 1..Len(seen) : seen[k] = normalizedPath

\* the path of the call is not added to the chain
SeenAddSkipped(seen, normalizedPath) == seen

\* seen.add(normalizedPath): a Set keeps insertion order and ignores a repeat
SeenAdd(seen, normalizedPath) ==
    IF SeenHas(seen, normalizedPath) THEN seen ELSE Append(seen, normalizedPath)

\* a limit that counts the call itself: reached one level early
DepthExceededEarly(depth, maxDepth) == depth + 1 >= maxDepth

\* a limit that lets one more level through
DepthExceededStrict(depth, maxDepth) == depth > maxDepth

\* depth >= maxDepth
DepthExceeded(depth, maxDepth) == depth >= maxDepth

\* the loop starts at the last match: let i = matches.length - 1
FirstLoopIndex(matches) == Len(matches) - 1

\* the nested call starts over, with an empty chain at depth 0
NewFrameRestarted(filePath, content, seen, depth) ==
    [filePath |-> filePath, content |-> content, seen |-> <<>>, seenIn |-> <<>>,
     depth |-> 0, deps |-> {}, matches |-> <<>>, i |-> -1,
     replacements |-> <<>>, pc |-> "enter", firstEvent |-> 0,
     children |-> <<>>, processed |-> [code |-> <<>>, deps |-> {}]]

\* the state of one call of processSsiRecursive on entry. pc: "enter" at
\* line 62, "loop" at line 104, "access" awaiting fs.access (line 117), "read"
\* awaiting fs.readFile (line 120), "await" awaiting the recursive call (line
\* 133), "resume" once that call has returned processed
NewFrame(filePath, content, seen, depth) ==
    [filePath |-> filePath, content |-> content, seen |-> seen, seenIn |-> seen,
     depth |-> depth, deps |-> {}, matches |-> <<>>, i |-> -1,
     replacements |-> <<>>, pc |-> "enter", firstEvent |-> 0,
     children |-> <<>>, processed |-> [code |-> <<>>, deps |-> {}]]

(***************************************************************************)
(* src/ssi.ts: processSsi as a function of its arguments and of the files  *)
(* that can be read (fs: readable path -> content), for the callers that   *)
(* await its result                                                        *)
(***************************************************************************)

\* the element of a one-element set: x \in {e} binds x to the value of e, which
\* is then computed once however often x is used
The(S) == CHOOSE x \in S : TRUE

RECURSIVE processSsiRecursive(_, _, _, _, _, _, _, _, _)
processSsiRecursive(fs, filePath, content, root, seen, depth, maxDepth, includeFileTypes, fileTypeMap) ==
    LET \* lines 84-101: the path joins the chain, the matches are collected
        Expanded(normalizedPath, added, matches) ==
            LET \* one round of the loop of lines 104-168, for match i
                Round(i, deps, replacements) ==
                    LET m            == matches[i + 1]
                        resolvedPath == resolveIncludePath(m.virtualPath, filePath, root)
                        normalizedResolvedPath == normalizePath(resolvedPath)
                        tracked      == deps \cup {normalizedResolvedPath}
                        Stored(processed) ==
                            [deps |-> tracked \cup processed.deps,
                             replacements |->
                                 Append(replacements,
                                     [start |-> m.index, end |-> m.index + m.length,
                                      replacement |-> processed.code])]
                        should == IF resolvedPath \in DOMAIN fs
                                  THEN shouldProcessSsi(resolvedPath, includeFileTypes,
                                                        fileTypeMap)
                                  ELSE "unread"
                    IN  IF should \in {"unread", "TypeError"}
                        THEN [deps |-> tracked,
                              replacements |->
                                  Append(replacements,
                                      [start |-> m.index, end |-> m.index + m.length,
                                       replacement |->
                                           FileNotFoundDiagnostic(normalizedResolvedPath)])]
                        ELSE IF should = "true"
                        THEN The({Stored(processed) : processed \in
                                    {processSsiRecursive(fs, resolvedPath,
                                         fs[resolvedPath], root, added, depth + 1,
                                         maxDepth, includeFileTypes, fileTypeMap)}})
                        ELSE Stored([code |-> fs[resolvedPath], deps |-> {}])
                \* the loop from match i down to match 0
                RECURSIVE Loop(_, _)
                Loop(i, acc) ==
                    IF i < 0 THEN acc
                    ELSE The({Loop(i - 1, next) :
                                next \in {Round(i, acc.deps, acc.replacements)}})
            IN  The({[code |-> ApplyReplacements(content, done.replacements),
                      deps |-> done.deps] :
                        done \in {Loop(FirstLoopIndex(matches),
                                       [deps |-> {}, replacements |-> <<>>])}})
    IN  The({IF SeenHas(seen, normalizedPath)
             THEN [code |-> CircularDiagnostic(seen, normalizedPath), deps |-> {}]
             ELSE IF DepthExceeded(depth, maxDepth)
             THEN [code |-> MaxDepthDiagnostic(maxDepth), deps |-> {}]
             ELSE The({Expanded(normalizedPath, added, matches) :
                         added \in {SeenAdd(seen, normalizedPath)},
                         matches \in {ScanDirectives(content)}}) :
                normalizedPath \in {normalizePath(filePath)}})

\* processSsi(filePath, content, options)
processSsi(fs, filePath, content, opts) ==
    processSsiRecursive(fs, filePath, content, opts.root, <<>>, 0, opts.maxDepth,
                        opts.includeFileTypes, opts.fileTypeMap)

(***************************************************************************)
(* src/index.ts: the apply option                                          *)
(***************************************************************************)

\* options.apply is undefined, one of the strings 'serve', 'build',
\* 'preview', or an object whose fields are true, false or not given
ApplyUndefined ==
    [form |-> "undefined", value |-> "", serve |-> "unset", build |-> "unset",
     preview |-> "unset"]

ApplyString(value) ==
    [form |-> "string", value |-> value, serve |-> "unset", build |-> "unset",
     preview |-> "unset"]

ApplyObject(serve, build, preview) ==
    [form |-> "object", value |-> "", serve |-> serve, build |-> build,
     preview |-> preview]

\* normalizeApplyOption(apply): the apply field handed to Vite
normalizeApplyOption(apply) ==
    IF apply.form = "undefined" THEN "undefined"
    ELSE IF apply.form = "string"
    THEN (IF apply.value = "preview" THEN "undefined" ELSE apply.value)
    ELSE IF apply.serve = "true" /\ apply.build # "true" THEN "serve"
    ELSE IF apply.build = "true" /\ apply.serve # "true" THEN "build"
    ELSE "undefined"

\* shouldApplyInEnvironment(apply, command)
shouldApplyInEnvironment(apply, cmd) ==
    IF apply.form = "undefined" THEN TRUE
    ELSE IF apply.form = "string" THEN apply.value = cmd
    ELSE IF cmd = "serve" THEN apply.serve # "false"
    ELSE IF cmd = "build" THEN apply.build # "false"
    ELSE IF cmd = "preview" THEN apply.preview # "false"
    ELSE TRUE

\* Vite keeps a plugin whose apply field is undefined or names the command
\* it runs; preview runs under the command 'serve'
KeptByVite(apply, viteCommand) ==
    normalizeApplyOption(apply) \in {"undefined", viteCommand}

(***************************************************************************)
(* State                                                                   *)
(***************************************************************************)

VARIABLES
    files,      \* the content-access collaborator: readable path -> content
    options,    \* ProcessSsiOptions after the defaults of processSsi
    top,        \* the arguments of the top-level call: filePath, content
    phase,      \* "none": no call asked for; "idle" before the call,
                \* "running", "done" once it returned
    stack,      \* the frames of processSsiRecursive, innermost last
    outcome,    \* the ProcessResult returned by the top-level call
    returned,   \* the call that returned last, with what it returned (history)
    events,     \* calls, scans, content accesses and returns so far (history)
    applyOption,            \* src/index.ts: options.apply of the plugin
    stage,                  \* what Vite is running: "off", "dev", "build", "preview"
    loaded,                 \* Vite kept the plugin for the command it runs
    command,                \* src/index.ts: let command
    server,                 \* src/index.ts: let server (TRUE once configureServer ran)
    middleware,             \* the preview middleware is installed
    dependencyGraph,        \* src/index.ts: document -> its dependency set
    reverseDependencyMap,   \* src/index.ts: dependency -> documents
    pending,                \* the hook and middleware calls in progress, each
                            \* with the await it has reached
    response                \* what the last hook or middleware call answered

\* the state of one call tree of processSsi
callVars == <<top, phase, stack, outcome, returned, events>>

\* the state of the plugin instance and of Vite around it
pluginVars == <<applyOption, stage, loaded, command, server, middleware,
                dependencyGraph, reverseDependencyMap, pending, response>>

vars == <<files, options, top, phase, stack, outcome, returned, events,
          applyOption, stage, loaded, command, server, middleware,
          dependencyGraph, reverseDependencyMap, pending, response>>

NoReturn ==
    [kind |-> "none", filePath |-> <<>>, content |-> <<>>, seenIn |-> <<>>,
     depth |-> 0, matches |-> <<>>, replacements |-> <<>>, code |-> <<>>,
     deps |-> {}, firstEvent |-> 0, lastEvent |-> 0, callers |-> <<>>,
     seen |-> <<>>, children |-> <<>>]

Top == stack[Len(stack)]

\* one entry of the history: what was done, on which path, by a call of which depth
Event(op, path, depth) == [op |-> op, path |-> path, depth |-> depth]

\* what the call in frame f returns, for the history: its arguments, what it
\* found and built, its result, where its call and its return stand among the
\* events, the files of the calls it is nested in, outermost first, and its
\* set `seen` as it is on return, and the dependency sets its recursive calls
\* have returned to it, in the order of their return
ReturnRecord(f, kind, code, deps) ==
    [kind |-> kind, filePath |-> f.filePath, content |-> f.content,
     seenIn |-> f.seenIn, depth |-> f.depth, matches |-> f.matches,
     replacements |-> f.replacements, code |-> code, deps |-> deps,
     firstEvent |-> f.firstEvent, lastEvent |-> Len(events) + 1,
     callers |-> [k \in 1..(Len(stack) - 1) |-> stack[k].filePath],
     seen |-> f.seen, children |-> f.children]

\* the loop walks the matches upwards: its k-th round takes the k-th match
LoopMatchAscending(f) == f.matches[Len(f.matches) - f.i]

\* const { index, length, virtualPath } = matches[i]
LoopMatch(f) == f.matches[f.i + 1]

\* the caller keeps the replacement but not the child's dependencies
ResumeUnmerged(parent, code, deps) ==
    LET m == LoopMatch(parent)
    IN  [parent EXCEPT
            !.replacements = Append(parent.replacements,
                [start |-> m.index, end |-> m.index + m.length,
                 replacement |-> code]),
            !.children = Append(parent.children, deps),
            !.i = parent.i - 1,
            !.pc = "loop"]

\* after a recursive call the loop passes over the directive that comes next
ResumeSkipping(parent, code, deps) ==
    LET m == LoopMatch(parent)
    IN  [parent EXCEPT
            !.deps = parent.deps \cup deps,
            !.replacements = Append(parent.replacements,
                [start |-> m.index, end |-> m.index + m.length,
                 replacement |-> code]),
            !.children = Append(parent.children, deps),
            !.i = parent.i - 2,
            !.pc = "loop"]

\* the child call works on the set of its caller instead of a copy: what the
\* child and the calls below it added is in the caller's chain when it returns
ResumeSharedSeen(parent, code, deps) ==
    LET m == LoopMatch(parent)
    IN  [parent EXCEPT
            !.deps = parent.deps \cup deps,
            !.seen = returned.seen,
            !.replacements = Append(parent.replacements,
                [start |-> m.index, end |-> m.index + m.length,
                 replacement |-> code]),
            !.children = Append(parent.children, deps),
            !.i = parent.i - 1,
            !.pc = "loop"]

\* lines 151-159 in the caller: merge the child's dependencies, store the
\* replacement for the directive being processed, go on with the next one
Resume(parent, code, deps) ==
    LET m == LoopMatch(parent)
    IN  [parent EXCEPT
            !.deps = parent.deps \cup deps,
            !.replacements = Append(parent.replacements,
                [start |-> m.index, end |-> m.index + m.length,
                 replacement |-> code]),
            !.children = Append(parent.children, deps),
            !.i = parent.i - 1,
            !.pc = "loop"]

\* return { code, deps } from the innermost call: the promise of the call is
\* resolved. The caller, suspended at line 133, has processed and goes on in
\* a step of its own
Return(kind, code, deps) ==
    /\ returned' = ReturnRecord(Top, kind, code, deps)
    /\ events' = Append(events, Event("return", Top.filePath, Top.depth))
    /\ IF Len(stack) = 1
       THEN /\ stack' = <<>>
            /\ outcome' = [code |-> code, deps |-> deps]
            /\ phase' = "done"
       ELSE /\ stack' = [SubSeq(stack, 1, Len(stack) - 1) EXCEPT
                            ![Len(stack) - 1] =
                                [@ EXCEPT !.processed = [code |-> code, deps |-> deps],
                                          !.pc = "resume"]]
            /\ UNCHANGED <<outcome, phase>>

(***************************************************************************)
(* Actions                                                                 *)
(***************************************************************************)

\* the call is entering processSsiRecursive (lines 62-63)
Entering == phase = "running" /\ Top.pc = "enter"

\* if (seen.has(normalizedPath))
IsCircular == Entering /\ SeenHas(Top.seen, normalizePath(Top.filePath))

\* the depth check made without regard to the cycle check
IsTooDeepFirst == Entering /\ DepthExceeded(Top.depth, options.maxDepth)

\* if (depth >= maxDepth), reached only past the cycle check
IsTooDeep ==
    /\ Entering
    /\ ~SeenHas(Top.seen, normalizePath(Top.filePath))
    /\ DepthExceeded(Top.depth, options.maxDepth)

\* neither early return is taken
IsScanned ==
    /\ Entering
    /\ ~SeenHas(Top.seen, normalizePath(Top.filePath))
    /\ ~DepthExceeded(Top.depth, options.maxDepth)

\* the set of the call made before is used again
LeftoverSeen == returned.seen

\* one set serves every call tree: a call that starts while another one is
\* suspended finds in it what the suspended call has added
SuspendedSeen ==
    IF \E c \in pending : c.stack # <<>>
    THEN LET c == CHOOSE c \in pending : c.stack # <<>>
         IN  c.stack[Len(c.stack)].seen
    ELSE <<>>

\* new Set(): each top-level call starts with a chain of its own
FreshSeen == <<>>

\* processSsi(filePath, content, options)
ProcessSsi ==
    /\ phase = "idle"
    /\ phase' = "running"
    /\ stack' = <<[NewFrame(top.filePath, top.content, FreshSeen, 0)
                      EXCEPT !.firstEvent = Len(events) + 1]>>
    /\ events' = Append(events, Event("call", top.filePath, 0))
    /\ UNCHANGED <<files, options, top, outcome, returned>>
    /\ UNCHANGED pluginVars

\* lines 62-74: the path is already in the ancestor chain
CircularReturn ==
    /\ IsCircular
    /\ Return("circular",
              CircularDiagnostic(Top.seen, normalizePath(Top.filePath)), {})
    /\ UNCHANGED <<files, options, top>>
    /\ UNCHANGED pluginVars

\* the depth return reports the file it was called for as a dependency
MaxDepthReturnTracked ==
    /\ IsTooDeep
    /\ Return("depth", MaxDepthDiagnostic(options.maxDepth),
              {normalizePath(Top.filePath)})
    /\ UNCHANGED <<files, options, top>>
    /\ UNCHANGED pluginVars

\* lines 76-82: the depth limit is reached
MaxDepthReturn ==
    /\ IsTooDeep
    /\ Return("depth", MaxDepthDiagnostic(options.maxDepth), {})
    /\ UNCHANGED <<files, options, top>>
    /\ UNCHANGED pluginVars

\* lines 84-101: add the path to the chain and collect all matches
Scan ==
    /\ IsScanned
    /\ LET normalizedPath == normalizePath(Top.filePath)
           matches == ScanDirectives(Top.content)
       IN  /\ stack' = [stack EXCEPT ![Len(stack)] =
                  [@ EXCEPT !.seen = SeenAdd(Top.seen, normalizedPath),
                            !.matches = matches,
                            !.i = FirstLoopIndex(matches),
                            !.pc = "loop"]]
           /\ events' = Append(events, Event("scan", Top.filePath, Top.depth))
    /\ UNCHANGED <<files, options, top, phase, outcome, returned>>
    /\ UNCHANGED pluginVars

\* the directive the loop is at, resolved (lines 105-110)
Current ==
    LET m == LoopMatch(Top)
        resolvedPath == resolveIncludePath(m.virtualPath, Top.filePath, options.root)
    IN  [start |-> m.index, end |-> m.index + m.length,
         resolvedPath |-> resolvedPath,
         normalizedResolvedPath |-> normalizePath(resolvedPath)]

AtDirective == phase = "running" /\ Top.pc = "loop" /\ Top.i >= 0

\* the call is suspended at await fs.access (line 117)
AtAccess == phase = "running" /\ Top.pc = "access"

\* the call is suspended at await fs.readFile (line 120)
AtRead == phase = "running" /\ Top.pc = "read"

\* the call is suspended at await processSsiRecursive (line 133) and the
\* call it waits for has returned
AtResume == phase = "running" /\ Top.pc = "resume"

\* a directory: the root of the file system, the project root, and every
\* directory on the way to a file
IsDirectory(fs, root, p) ==
    \/ p = <<"/">>
    \/ \E q \in DOMAIN fs \cup {root \o <<"/">>} : HasPrefixAt(q, 1, p \o <<"/">>)

\* fs.access is given resolvedPath as it is: it succeeds on the files and on
\* the directories, a directory named with a slash at its end or without. A
\* backslash is a character of a name like any other
Accessible(resolvedPath) ==
    \/ resolvedPath \in DOMAIN files
    \/ IsDirectory(files, options.root, PathResolve1(resolvedPath))

\* fs.readFile succeeds on the files
Readable(resolvedPath) == resolvedPath \in DOMAIN files

\* what line 125 gives for the file that was read
Should ==
    shouldProcessSsi(Current.resolvedPath, options.includeFileTypes,
                     options.fileTypeMap)

\* the catch of line 160 is reached: fs.access throws, fs.readFile throws, or
\* the file is read and matchesFileType throws
IsNotFound ==
    \/ AtAccess /\ ~Accessible(Current.resolvedPath)
    \/ AtRead /\ ~Readable(Current.resolvedPath)
    \/ AtRead /\ Readable(Current.resolvedPath) /\ Should = "TypeError"

\* the file is read and shouldProcessSsi is false
IsVerbatim == AtRead /\ Readable(Current.resolvedPath) /\ Should = "false"

\* the file is read and shouldProcessSsi is true
IsRecursed == AtRead /\ Readable(Current.resolvedPath) /\ Should = "true"

\* the loop of line 104 has ended
LoopEnded == phase = "running" /\ Top.pc = "loop" /\ Top.i < 0

\* lines 105-117: the directive is resolved, its target joins the
\* dependencies and fs.access is called; the call waits for the answer
TrackDependency ==
    /\ AtDirective
    /\ stack' = [stack EXCEPT ![Len(stack)] =
           [@ EXCEPT !.deps = Top.deps \cup {Current.normalizedResolvedPath},
                     !.pc = "access"]]
    /\ UNCHANGED <<files, options, top, phase, outcome, returned, events>>
    /\ UNCHANGED pluginVars

\* line 117: fs.access has succeeded; fs.readFile is called (line 120) and
\* the call waits for the content
Accessed ==
    /\ AtAccess
    /\ Accessible(Current.resolvedPath)
    /\ stack' = [stack EXCEPT ![Len(stack)] = [@ EXCEPT !.pc = "read"]]
    /\ events' = Append(events, Event("access", Current.resolvedPath, Top.depth))
    /\ UNCHANGED <<files, options, top, phase, outcome, returned>>
    /\ UNCHANGED pluginVars

\* the error is not caught: it leaves every call
IncludeNotFoundThrows ==
    /\ IsNotFound
    /\ stack' = <<>>
    /\ phase' = "failed"
    /\ events' = Append(events, Event(IF AtAccess THEN "access" ELSE "read",
                                      Current.resolvedPath, Top.depth))
    /\ UNCHANGED <<files, options, top, outcome, returned>>
    /\ UNCHANGED pluginVars

\* lines 160-167: what fs.access, fs.readFile or matchesFileType has thrown
\* is caught, the diagnostic is stored and the loop goes on
IncludeNotFound ==
    /\ IsNotFound
    /\ stack' = [stack EXCEPT ![Len(stack)] =
           [@ EXCEPT !.replacements = Append(Top.replacements,
                         [start |-> Current.start, end |-> Current.end,
                          replacement |->
                              FileNotFoundDiagnostic(Current.normalizedResolvedPath)]),
                     !.i = Top.i - 1,
                     !.pc = "loop"]]
    /\ events' = Append(events, Event(IF AtAccess THEN "access" ELSE "read",
                                      Current.resolvedPath, Top.depth))
    /\ UNCHANGED <<files, options, top, phase, outcome, returned>>
    /\ UNCHANGED pluginVars

\* lines 120-129, 143-159: the content has arrived and is inserted as it is
IncludeVerbatim ==
    /\ IsVerbatim
    /\ stack' = [stack EXCEPT ![Len(stack)] =
           [@ EXCEPT !.replacements = Append(Top.replacements,
                         [start |-> Current.start, end |-> Current.end,
                          replacement |-> files[Current.resolvedPath]]),
                     !.i = Top.i - 1,
                     !.pc = "loop"]]
    /\ events' = Append(events, Event("read", Current.resolvedPath, Top.depth))
    /\ UNCHANGED <<files, options, top, phase, outcome, returned>>
    /\ UNCHANGED pluginVars

\* the recursive call fills the dependency set of its caller instead of a set
\* of its own: it starts from what the caller has collected so far
IncludeRecurseSharedDeps ==
    /\ IsRecursed
    /\ stack' = Append(
           [stack EXCEPT ![Len(stack)] = [@ EXCEPT !.pc = "await"]],
           [NewFrame(Current.resolvedPath, files[Current.resolvedPath],
                     Top.seen, Top.depth + 1)
               EXCEPT !.firstEvent = Len(events) + 2,
                      !.deps = Top.deps])
    /\ events' = events \o <<Event("read", Current.resolvedPath, Top.depth),
                             Event("call", Current.resolvedPath, Top.depth + 1)>>
    /\ UNCHANGED <<files, options, top, phase, outcome, returned>>
    /\ UNCHANGED pluginVars

\* lines 120-142: the content has arrived and is expanded by a recursive
\* call, for which the caller waits; the frame records where its call stands
\* in the history
IncludeRecurse ==
    /\ IsRecursed
    /\ stack' = Append(
           [stack EXCEPT ![Len(stack)] = [@ EXCEPT !.pc = "await"]],
           [NewFrame(Current.resolvedPath, files[Current.resolvedPath],
                     Top.seen, Top.depth + 1)
               EXCEPT !.firstEvent = Len(events) + 2])
    /\ events' = events \o <<Event("read", Current.resolvedPath, Top.depth),
                             Event("call", Current.resolvedPath, Top.depth + 1)>>
    /\ UNCHANGED <<files, options, top, phase, outcome, returned>>
    /\ UNCHANGED pluginVars

\* lines 133, 151-159: the caller goes on with what the recursive call has
\* returned
Resumed ==
    /\ AtResume
    /\ stack' = [stack EXCEPT ![Len(stack)] =
           Resume(Top, Top.processed.code, Top.processed.deps)]
    /\ UNCHANGED <<files, options, top, phase, outcome, returned, events>>
    /\ UNCHANGED pluginVars

\* lines 170-175: every directive is resolved; apply the replacements, return
Finish ==
    /\ LoopEnded
    /\ Return("expanded", ApplyReplacements(Top.content, Top.replacements), Top.deps)
    /\ UNCHANGED <<files, options, top>>
    /\ UNCHANGED pluginVars

Next ==
    \/ ProcessSsi
    \/ CircularReturn
    \/ MaxDepthReturn
    \/ Scan
    \/ TrackDependency
    \/ Accessed
    \/ IncludeNotFound
    \/ IncludeVerbatim
    \/ IncludeRecurse
    \/ Resumed
    \/ Finish

(***************************************************************************)
(* Inputs: the projects and configurations the model is run on             *)
(***************************************************************************)

\* most directives in the top-level document of a small project
MaxDirectives == 2

\* longest include chain of a chain project (levels, the top level included),
\* and the largest maxDepth it is expanded with
MaxChain == 6

Root == <<"/","r">>

PathA == <<"/","r","/","a",".","h","t","m">>

PathB == <<"/","r","/","b",".","h","t","m">>

PathN == <<"/","r","/","n",".","m","d">>

\* <!--#include virtual="..." -->
Directive(virtualPath) ==
    LitInclude \o <<" ">> \o LitVirtual \o LitEquals \o LitQuote
        \o virtualPath \o LitQuote \o <<" ">> \o LitClose

ToA == <<"/","a",".","h","t","m">>

ToB == <<"b",".","h","t","m">>

ToN == <<"/","n",".","m","d">>

ToMissing == <<"x",".","h","t","m">>

\* targets of the directives of a.htm: root-relative to a.htm itself,
\* file-relative to b.htm, root-relative to n.md, a file that does not exist
Targets == {ToA, ToB, ToN, ToMissing}

Text(k) == [j \in 1..k |-> "t"]

\* a document with the directives ts, k characters of text before the k-th
\* directive and one more after the last
RECURSIVE RenderFrom(_, _)
RenderFrom(ts, k) ==
    IF k > Len(ts) THEN Text(k)
    ELSE Text(k) \o Directive(ts[k]) \o RenderFrom(ts, k + 1)

Render(ts) == RenderFrom(ts, 1)

SeqsUpTo(S, n) == UNION {[1..k -> S] : k \in 0..n}

ContentsA == {Render(ts) : ts \in SeqsUpTo(Targets, MaxDirectives)}

\* <<"-">> stands for a file that does not exist
Absent == <<"-">>

\* b.htm: absent, no directive, back to a.htm, on to n.md
ContentsB == {Absent, Render(<<>>), Render(<<ToA>>), Render(<<ToN>>)}

\* a comment that is no directive: <!-- #include virtual="/a.htm" -->
Inert == <<"<","!","-","-"," ","#","i","n","c","l","u","d","e"," ">> \o LitVirtual
             \o LitEquals \o LitQuote \o ToA \o LitQuote \o <<" ">> \o LitClose

\* n.md: absent, empty, a comment that is no directive, one directive to b.htm
ContentsN == {Absent, <<>>, Inert, Render(<<<<"/","b",".","h","t","m">>>>)}

MakeFiles(a, b, n) ==
    [p \in {PathA} \cup (IF b = Absent THEN {} ELSE {PathB})
                   \cup (IF n = Absent THEN {} ELSE {PathN})
        |-> IF p = PathA THEN a ELSE IF p = PathB THEN b ELSE n]

TypesNone == <<>>

TypesHtml == <<<<"h","t","m","l">>>>

TypesTextHtml == <<<<"T","E","X","T">>, <<"h","t","m","l">>>>

\* includeFileTypes: the default, markup only, text and markup
TypeChoices == {TypesNone, TypesHtml, TypesTextHtml}

MakeOptions(maxDepth, types) ==
    [root |-> Root, maxDepth |-> maxDepth, includeFileTypes |-> types,
     fileTypeMap |-> DEFAULT_FILE_TYPE_MAP]

\* the values of maxDepth of the small projects: their deepest nesting is
\* n.md -> b.htm -> a.htm and a cycle closed below it, which a larger
\* maxDepth expands as this one does
SmallDepths == 1..3

\* a.htm where it is reached from n.md through b.htm: one directive back to
\* b.htm, or one to a missing file and one to n.md
ContentsBelow == {Render(<<ToB>>), Render(<<ToMissing, ToN>>)}

\* small projects: a.htm, b.htm, n.md with every combination of contents
\* expanded from a.htm, and those in which n.md exists expanded from n.md
SmallProjects ==
    {[files |-> MakeFiles(a, b, n), topPath |-> PathA,
      options |-> MakeOptions(maxDepth, types)] :
        a \in ContentsA, b \in ContentsB, n \in ContentsN,
        maxDepth \in SmallDepths, types \in TypeChoices}
    \cup
    {[files |-> MakeFiles(a, b, n), topPath |-> PathN,
      options |-> MakeOptions(maxDepth, types)] :
        a \in ContentsBelow, b \in ContentsB, n \in ContentsN \ {Absent},
        maxDepth \in SmallDepths, types \in TypeChoices}

\* chain projects: level k is c<k>.htm and includes level k + 1
ChainName(k) == <<"c">> \o IntToStr(k) \o <<".","h","t","m">>

ChainPath(k) == Root \o <<"/">> \o ChainName(k)

LevelText(k) == <<"L">> \o IntToStr(k)

\* how the last level of a chain ends: without a directive, with a directive
\* to a file that does not exist, with a directive back to level 1, with a
\* directive to n.md, with a directive to the directory d, with a directive
\* that names the directory d/e with a backslash
ChainTails == {"end", "missing", "loop", "plain", "directory", "backslash"}

PlainText == <<"p","l","a","i","n">>

\* a directory next to the files, with a directory in it that holds one file
PathDir == Root \o <<"/","d">>

PathSubDir == PathDir \o <<"/","e">>

PathInDir == PathSubDir \o <<"/","f",".","m","d">>

ToDir == <<"d">>

\* d\e: one name with a backslash in it, of which there is no file
ToBackslash == <<"d","\\","e">>

\* odd levels address the next level file-relative, even levels root-relative
ChainContent(k, levels, tail) ==
    LevelText(k) \o
    (IF k < levels
     THEN Directive(IF k % 2 = 1 THEN ChainName(k + 1)
                    ELSE <<"/">> \o ChainName(k + 1))
     ELSE IF tail = "missing" THEN Directive(ChainName(k + 1))
     ELSE IF tail = "loop" THEN Directive(<<"/">> \o ChainName(1))
     ELSE IF tail = "plain" THEN Directive(ToN)
     ELSE IF tail = "directory" THEN Directive(ToDir)
     ELSE IF tail = "backslash" THEN Directive(ToBackslash)
     ELSE <<>>)

ChainFiles(levels, tail) ==
    [p \in {ChainPath(k) : k \in 1..levels} \cup {PathN, PathInDir} |->
        IF p \in {PathN, PathInDir} THEN PlainText
        ELSE ChainContent(CHOOSE k \in 1..levels : ChainPath(k) = p, levels, tail)]

ChainProjects ==
    {[files |-> ChainFiles(levels, tail), topPath |-> ChainPath(1),
      options |-> MakeOptions(maxDepth, TypesHtml)] :
        levels \in 1..MaxChain, tail \in ChainTails, maxDepth \in 1..MaxChain}

TypesInherited == <<LitConstructor>>

TypesHtmlInherited == <<<<"h","t","m","l">>, LitProto>>

TypesInheritedHtml == <<LitConstructor, <<"H","T","M","L">>>>

\* includeFileTypes with a name that the file type map inherits
InheritedChoices == {TypesInherited, TypesHtmlInherited, TypesInheritedHtml}

\* projects with such a name enabled: a.htm includes b.htm, or n.md and b.htm
InheritedProjects ==
    {[files |-> MakeFiles(a, b, Inert), topPath |-> PathA,
      options |-> MakeOptions(2, types)] :
        a \in {Render(<<ToB>>), Render(<<ToN, ToB>>)},
        b \in {Render(<<>>), Render(<<ToA>>)},
        types \in InheritedChoices}

Projects == SmallProjects \cup ChainProjects \cup InheritedProjects

\* no document -> no entry
EmptyMap == [d \in {} |-> {}]

NoResponse ==
    [hook |-> "none", method |-> "", path |-> <<>>, html |-> <<>>, body |-> <<>>,
     applied |-> FALSE, affected |-> {}, modules |-> {}, invalidated |-> {},
     fullReload |-> FALSE, next |-> FALSE, failed |-> FALSE, deps |-> {},
     exists |-> FALSE]

\* the plugin takes no part
PluginOff ==
    /\ applyOption = ApplyUndefined
    /\ stage = "off"
    /\ loaded = FALSE
    /\ command = "serve"
    /\ server = FALSE
    /\ middleware = FALSE
    /\ dependencyGraph = EmptyMap
    /\ reverseDependencyMap = EmptyMap
    /\ pending = {}
    /\ response = NoResponse

\* one call of processSsi on the top-level document of one of the projects,
\* not yet made
InitFrom(projects) ==
    /\ \E project \in projects :
          /\ files = project.files
          /\ options = project.options
          /\ top = [filePath |-> project.topPath,
                    content |-> project.files[project.topPath]]
    /\ phase = "idle"
    /\ stack = <<>>
    /\ outcome = [code |-> <<>>, deps |-> {}]
    /\ returned = NoReturn
    /\ events = <<>>
    /\ PluginOff

Init == InitFrom(Projects)

Spec == Init /\ [][Next]_vars

(***************************************************************************)
(* Inputs: projects with a subdirectory and a file outside the root        *)
(***************************************************************************)

\* maxDepth = 10, the default of the plugin
DefaultMaxDepth == 10

IndexHtml == Root \o <<"/","i","n","d","e","x",".","h","t","m","l">>

WrapperHtml == Root \o <<"/","s","u","b","/","w","r","a","p","p","e","r",".","h","t","m","l">>

SubHeaderHtml == Root \o <<"/","s","u","b","/","h","e","a","d","e","r",".","h","t","m","l">>

RootHeaderHtml == Root \o <<"/","h","e","a","d","e","r",".","h","t","m","l">>

ContentHtml == Root \o <<"/","c","o","n","t","e","n","t",".","h","t","m","l">>

\* a file next to the project root, not in it
OutsideHtml == <<"/","s",".","h","t","m","l">>

SubHeaderText == <<"S","U","B","H","E","A","D">>

RootHeaderText == <<"R","O","O","T","H","E","A","D">>

ContentText == <<"C","O","N","T","E","N","T">>

OutsideText == <<"S","E","C","R","E","T">>

\* a document: the directives to targets, each in brackets, after a mark
RECURSIVE Bracketed(_)
Bracketed(targets) ==
    IF targets = <<>> THEN <<>>
    ELSE <<"[">> \o Directive(Head(targets)) \o <<"]">> \o Bracketed(Tail(targets))

Page(mark, targets) == mark \o Bracketed(targets)

ToWrapper == <<"s","u","b","/","w","r","a","p","p","e","r",".","h","t","m","l">>

ToHeader == <<"h","e","a","d","e","r",".","h","t","m","l">>

ToContent == <<"/","c","o","n","t","e","n","t",".","h","t","m","l">>

ToIndex == <<"/","i","n","d","e","x",".","h","t","m","l">>

ToUpIndex == <<".",".","/","i","n","d","e","x",".","h","t","m","l">>

ToGone == <<"g","o","n","e",".","h","t","m","l">>

ToOutsideFromRoot == <<"/",".",".","/","s",".","h","t","m","l">>

ToOutsideFromFile == <<".",".","/","s",".","h","t","m","l">>

\* the directory sub
ToSub == <<"s","u","b">>

\* a directive written with other white space than blanks: a vertical tab, a
\* no-break space, a byte order mark, a line separator
DirectiveSpaced(virtualPath) ==
    LitInclude \o <<"U+000B">> \o LitVirtual \o <<"U+00A0">> \o LitEquals
        \o <<"U+FEFF">> \o LitQuote \o virtualPath \o LitQuote \o <<"U+2028">>
        \o LitClose

\* index.html: includes the wrapper; the wrapper and the content; itself; a
\* missing file; the file outside the root, root-relative and file-relative;
\* a directory; the content, by a directive written with other white space
IndexPages ==
    {Page(<<"I">>, ts) :
        ts \in {<<ToWrapper>>, <<ToWrapper, ToContent>>, <<ToIndex>>, <<ToGone>>,
                <<ToOutsideFromRoot>>, <<ToOutsideFromFile>>, <<ToSub>>}}
    \cup {<<"I", "[">> \o DirectiveSpaced(ToContent) \o <<"]">>}

\* sub/wrapper.html: includes header.html, file-relative, and /content.html,
\* root-relative; the header only; the header and, file-relative, index.html
WrapperPages ==
    {Page(<<"W">>, ts) :
        ts \in {<<ToHeader, ToContent>>, <<ToHeader>>, <<ToHeader, ToUpIndex>>}}

TreeFiles(index, wrapper, subHeader) ==
    [p \in {IndexHtml, WrapperHtml, RootHeaderHtml, ContentHtml, OutsideHtml}
           \cup (IF subHeader THEN {SubHeaderHtml} ELSE {}) |->
        IF p = IndexHtml THEN index
        ELSE IF p = WrapperHtml THEN wrapper
        ELSE IF p = SubHeaderHtml THEN SubHeaderText
        ELSE IF p = RootHeaderHtml THEN RootHeaderText
        ELSE IF p = ContentHtml THEN ContentText
        ELSE OutsideText]

TreeProjects ==
    {[files |-> TreeFiles(index, wrapper, subHeader), topPath |-> IndexHtml,
      options |-> MakeOptions(maxDepth, types)] :
        index \in IndexPages, wrapper \in WrapperPages, subHeader \in BOOLEAN,
        maxDepth \in {1, 2, DefaultMaxDepth}, types \in {TypesNone, TypesHtml}}

TreeInit == InitFrom(TreeProjects)

TreeSpec == TreeInit /\ [][Next]_vars

(***************************************************************************)
(* A session: several top-level calls of processSsi, one after the other,  *)
(* on documents of one project whose files stay as they are                *)
(***************************************************************************)

\* most top-level calls in one session
MaxCalls == 3

\* the documents a session expands
SessionDocuments == {IndexHtml, WrapperHtml, ContentHtml}

\* the result of a finished top-level call, kept in the history
Result(document, result) ==
    [op |-> "result", path |-> document.filePath, depth |-> 0,
     content |-> document.content, code |-> result.code, deps |-> result.deps]

Results == {k \in 1..Len(events) : events[k].op = "result"}

\* the caller takes the result of the call that has finished and calls
\* processSsi for another document, or for the same one again
NextDocument ==
    /\ phase = "done"
    /\ Cardinality(Results) + 1 < MaxCalls
    /\ \E p \in SessionDocuments \cap DOMAIN files :
          top' = [filePath |-> p, content |-> files[p]]
    /\ events' = Append(events, Result(top, outcome))
    /\ phase' = "idle"
    /\ UNCHANGED <<files, options, stack, outcome, returned>>
    /\ UNCHANGED pluginVars

SessionNext ==
    \/ Next
    \/ NextDocument

SessionSpec == TreeInit /\ [][SessionNext]_vars

(***************************************************************************)
(* src/dev-server.ts and the hooks of src/index.ts                         *)
(***************************************************************************)

\* path.isAbsolute(filename) ? filename : path.resolve(root, filename)
FilePathOf(filename, root) ==
    IF IsAbsolute(filename) THEN filename ELSE PathResolve2(root, filename)

\* reverseDependencyMap.get(changedFile), nothing read as the empty set
Lookup(map, path) == IF path \in DOMAIN map THEN map[path] ELSE {}

\* map.set(key, value)
MapSet(map, key, value) ==
    [k \in DOMAIN map \cup {key} |-> IF k = key THEN value ELSE map[k]]

\* deps.forEach: every dependency gets the document added to its set, a set
\* that is created when the dependency has none
AddDependent(map, deps, document) ==
    [k \in DOMAIN map \cup deps |->
        IF k \in deps THEN Lookup(map, k) \cup {document} ELSE map[k]]

\* config.command of the configuration Vite resolves: preview is resolved
\* under the command 'serve'
ViteCommand(st) == IF st = "build" THEN "build" ELSE "serve"

LitDist == <<"d","i","s","t">>

LitDotHtml == <<".","h","t","m","l">>

LitIndexUrl == <<"/","i","n","d","e","x",".","h","t","m","l">>

\* path.resolve(projectRoot, outDir)
DistRoot(projectRoot) == PathResolve2(projectRoot, LitDist)

\* the file of the build output a request path names
RequestedFile(projectRoot, url) ==
    LET split   == BeforeFirst(url, "?")
        reqPath == IF split = <<"/">> \/ split = <<>> THEN LitIndexUrl ELSE split
    IN  PathJoin(DistRoot(projectRoot),
                 IF reqPath[1] = "/" THEN SliceFrom(reqPath, 1) ELSE reqPath)

\* the middleware answers only a GET for a path that ends in .html
IsHtmlRequest(method, url) ==
    LET split   == BeforeFirst(url, "?")
        reqPath == IF split = <<"/">> \/ split = <<>> THEN LitIndexUrl ELSE split
    IN  url # <<>> /\ method = "GET" /\ EndsWith(reqPath, LitDotHtml)

\* path.join(projectRoot, path.relative(distRoot, filePath))
SourceFilePath(projectRoot, filePath) ==
    PathJoin(projectRoot, PathRelative(DistRoot(projectRoot), filePath))

(***************************************************************************)
(* Inputs: a site served, built and previewed by Vite                      *)
(***************************************************************************)

AboutHtml == Root \o <<"/","a","b","o","u","t",".","h","t","m","l">>

DistIndexHtml == <<"/","r","/","d","i","s","t","/","i","n","d","e","x",".","h","t","m","l">>

ToAbout == <<"/","a","b","o","u","t",".","h","t","m","l">>

\* the site before any edit: index.html includes sub/wrapper.html, which
\* includes its header and /content.html; about.html includes /content.html
\* and itself
SiteFiles ==
    [p \in {IndexHtml, AboutHtml, WrapperHtml, SubHeaderHtml, ContentHtml} |->
        IF p = IndexHtml THEN Page(<<"I">>, <<ToWrapper>>)
        ELSE IF p = AboutHtml THEN Page(<<"A">>, <<ToContent, ToAbout>>)
        ELSE IF p = WrapperHtml THEN Page(<<"W">>, <<ToHeader, ToContent>>)
        ELSE IF p = SubHeaderHtml THEN SubHeaderText
        ELSE ContentText]

\* the site without some of its files
SiteWithout(paths) == [p \in DOMAIN SiteFiles \ paths |-> SiteFiles[p]]

\* the documents Vite serves in dev, those of them the site has; the build
\* has index.html as its entry
TopDocuments == {IndexHtml, AboutHtml}

\* the files the watcher of the dev server reports
WatchedFiles == {IndexHtml, WrapperHtml, ContentHtml}

ApplyOptions ==
    {ApplyUndefined, ApplyString("serve"), ApplyString("build"),
     ApplyString("preview"),
     ApplyObject("unset", "false", "unset"),
     ApplyObject("false", "true", "unset")}

\* the options of the plugin: includeFileTypes left out or ['html'] with the
\* default maxDepth, and ['html'] with maxDepth 1
PluginConfigs ==
    {MakeOptions(DefaultMaxDepth, TypesNone), MakeOptions(DefaultMaxDepth, TypesHtml),
     MakeOptions(1, TypesHtml)}

Methods == {"GET", "POST"}

\* request targets: the site, the index with a query, a script, a page that
\* was not built, the page about.html one directory above the build output
Urls ==
    {<<"/">>, <<"/","i","n","d","e","x",".","h","t","m","l","?","v","=","1">>,
     <<"/","a","p","p",".","j","s">>, <<"/","g","o","n","e",".","h","t","m","l">>,
     <<"/",".",".","/","a","b","o","u","t",".","h","t","m","l">>}

(***************************************************************************)
(* Actions of the plugin and of Vite around it                             *)
(***************************************************************************)

\* Vite resolves the configuration for what it is started for, keeps or
\* drops the plugin by its apply field and calls configResolved and
\* configureServer or configurePreviewServer of a plugin it keeps
Start(st) ==
    /\ stage = "off"
    /\ stage' = st
    /\ loaded' = KeptByVite(applyOption, ViteCommand(st))
    /\ command' = IF loaded' THEN ViteCommand(st) ELSE "serve"
    /\ server' = (loaded' /\ st = "dev")
    /\ middleware' = (/\ loaded'
                      /\ st = "preview"
                      /\ shouldApplyInEnvironment(applyOption, "preview"))
    /\ UNCHANGED <<files, options, applyOption, dependencyGraph,
                   reverseDependencyMap, pending, response>>
    /\ UNCHANGED callVars

\* the dev server is started on the sources, before any build
StartDev == DistIndexHtml \notin DOMAIN files /\ Start("dev")

StartBuild == Start("build")

StartPreview == Start("preview")

\* in a build Vite writes what the hooks made of index.html to the output
\* directory
Emitted(body) ==
    IF stage = "build"
    THEN [p \in DOMAIN files \cup {DistIndexHtml} |->
             IF p = DistIndexHtml THEN body ELSE files[p]]
    ELSE files

\* what the transformIndexHtml hook answers, and with body the dependency
\* set of the expansion that made it
Transformed(document, html, body, applied, deps) ==
    [NoResponse EXCEPT !.hook = "transformIndexHtml", !.path = document,
                       !.html = html, !.body = body, !.applied = applied,
                       !.deps = deps]

\* most hook and middleware calls in progress at a time
MaxInFlight == 2

\* the call tree of a call that has none
NoCallTree ==
    [top |-> [filePath |-> IndexHtml, content |-> <<>>], phase |-> "none",
     stack |-> <<>>, outcome |-> [code |-> <<>>, deps |-> {}],
     returned |-> NoReturn, events |-> <<>>]

\* the call tree the thread is in
CallTree ==
    [top |-> top, phase |-> phase, stack |-> stack, outcome |-> outcome,
     returned |-> returned, events |-> events]

\* a hook or middleware call in progress: the await it has reached, what
\* it was called with and what it has got so far. The call that was started
\* or continued last is the running one, its call tree is the one the thread
\* is in; the others wait for the file system, each with its call tree as it
\* left it, and calls that wait with all of this equal are counted
InFlight(hook, step, method, path, html, code, deps) ==
    [hook |-> hook, step |-> step, method |-> method, path |-> path,
     html |-> html, code |-> code, deps |-> deps, running |-> TRUE,
     tree |-> NoCallTree, copies |-> 1]

\* the running call
Running == {call \in pending : call.running}

\* how many calls are in progress
RECURSIVE CountOf(_)
CountOf(calls) ==
    IF calls = {} THEN 0
    ELSE LET call == CHOOSE c \in calls : TRUE
         IN  call.copies + CountOf(calls \ {call})

\* one more call that waits as call does
WithWaiting(calls, call) ==
    IF \E c \in calls : [c EXCEPT !.copies = 1] = call
    THEN {IF [c EXCEPT !.copies = 1] = call
          THEN [c EXCEPT !.copies = c.copies + 1] ELSE c : c \in calls}
    ELSE calls \cup {call}

\* one call less that waits as call, one of calls, does
WithoutWaiting(calls, call) ==
    IF call.copies = 1 THEN calls \ {call}
    ELSE (calls \ {call}) \cup {[call EXCEPT !.copies = call.copies - 1]}

\* the calls that wait for the file system
Waiting == pending \ Running

\* the running call, left by the thread at its await, joins the waiting ones
ParkedWith(waiting) ==
    IF Running = {} THEN waiting
    ELSE LET call == CHOOSE c \in Running : TRUE
         IN  WithWaiting(waiting, [call EXCEPT !.running = FALSE, !.tree = CallTree])

\* the calls in progress once the thread has left the running one
Parked == ParkedWith(Waiting)

\* processSsi(filePath, content, options) is about to be called
AskFor(filePath, content) ==
    /\ top' = [filePath |-> filePath, content |-> content]
    /\ phase' = "idle"
    /\ stack' = <<>>
    /\ outcome' = [code |-> <<>>, deps |-> {}]
    /\ returned' = NoReturn
    /\ events' = <<>>

\* the call the hook or the middleware waited for is over and its result
\* taken; nothing else is kept of it
CallOver ==
    /\ top' = [filePath |-> IndexHtml, content |-> <<>>]
    /\ phase' = "none"
    /\ stack' = <<>>
    /\ outcome' = [code |-> <<>>, deps |-> {}]
    /\ returned' = NoReturn
    /\ events' = <<>>

\* the event loop can run another callback: no call is running, or the
\* running one waits for the file system
Interruptible ==
    \/ Running = {}
    \/ \E call \in Running : call.step \in {"access", "read"}
    \/ AtAccess
    \/ AtRead

\* the file system has answered a call that waited for it, and the event loop
\* continues this call
Continue ==
    /\ Interruptible
    /\ \E call \in Waiting :
          /\ pending' = ParkedWith(WithoutWaiting(Waiting, call))
                            \cup {[call EXCEPT !.running = TRUE, !.copies = 1,
                                               !.tree = NoCallTree]}
          /\ top' = call.tree.top
          /\ phase' = call.tree.phase
          /\ stack' = call.tree.stack
          /\ outcome' = call.tree.outcome
          /\ returned' = call.tree.returned
          /\ events' = call.tree.events
    /\ UNCHANGED <<files, options, applyOption, stage, loaded, command, server,
                   middleware, dependencyGraph, reverseDependencyMap, response>>

\* the transformIndexHtml hook up to its first await (part_006:167-180,
\* dev-server.ts:154-168): it returns the HTML as it is when the plugin does
\* not apply, else it asks for the expansion of the HTML and waits for it
TransformIndexHtmlHook ==
    /\ stage \in {"dev", "build"}
    /\ loaded
    /\ Interruptible
    /\ CountOf(pending) < MaxInFlight
    /\ \E document \in (IF stage = "dev" THEN TopDocuments \cap DOMAIN files
                         ELSE {IndexHtml}) :
          LET html == files[document]
              currentCommand == IF server THEN "serve" ELSE command
          IN  IF ~shouldApplyInEnvironment(applyOption, currentCommand)
              THEN /\ response' = Transformed(document, html, html, FALSE, {})
                   /\ files' = Emitted(html)
                   /\ UNCHANGED pending
                   /\ UNCHANGED callVars
              ELSE /\ pending' = Parked \cup {InFlight("transformIndexHtml", "expand",
                                                        "", document, html, <<>>, {})}
                   /\ AskFor(FilePathOf(document, options.root), html)
                   /\ response' = NoResponse
                   /\ UNCHANGED files
    /\ UNCHANGED <<options, applyOption, stage, loaded, command, server,
                   middleware, dependencyGraph, reverseDependencyMap>>

\* the hook from its first await to its second (dev-server.ts:168-169,
\* part_006:180-199): the expansion has come back, its text is kept and its
\* dependency set dropped, and the same HTML is expanded once more
TransformIndexHtmlAgain ==
    /\ phase = "done"
    /\ \E call \in Running :
          /\ call.hook = "transformIndexHtml"
          /\ call.step = "expand"
          /\ pending' = (pending \ {call})
                            \cup {[call EXCEPT !.step = "deps", !.code = outcome.code,
                                               !.deps = outcome.deps]}
          /\ AskFor(FilePathOf(call.path, options.root), call.html)
    /\ UNCHANGED <<files, options, applyOption, stage, loaded, command, server,
                   middleware, dependencyGraph, reverseDependencyMap, response>>

\* the rest of the hook (part_006:199-210): the dependencies of the second
\* expansion are recorded in both maps, and the text of the first expansion
\* is returned
TransformIndexHtmlRecord ==
    /\ phase = "done"
    /\ \E call \in Running :
          /\ call.hook = "transformIndexHtml"
          /\ call.step = "deps"
          /\ LET normalizedFilePath ==
                     normalizePath(FilePathOf(call.path, options.root))
                 depsResult == outcome
             IN  /\ dependencyGraph' =
                        MapSet(dependencyGraph, normalizedFilePath, depsResult.deps)
                 /\ reverseDependencyMap' =
                        AddDependent(reverseDependencyMap, depsResult.deps,
                                     normalizedFilePath)
          /\ pending' = pending \ {call}
          /\ response' = Transformed(call.path, call.html, call.code, TRUE,
                                      call.deps)
          /\ files' = Emitted(call.code)
    /\ CallOver
    /\ UNCHANGED <<options, applyOption, stage, loaded, command, server,
                   middleware>>

\* a build in which Vite dropped the plugin writes index.html as it is
EmitUntransformed ==
    /\ stage = "build"
    /\ ~loaded
    /\ files' = Emitted(files[IndexHtml])
    /\ UNCHANGED <<options, applyOption, stage, loaded, command, server,
                   middleware, dependencyGraph, reverseDependencyMap, pending,
                   response>>
    /\ UNCHANGED callVars

\* the build is over; what is started next has a plugin instance of its own,
\* made with options of its own
BuildEnds ==
    /\ stage = "build"
    /\ pending = {}
    /\ DistIndexHtml \in DOMAIN files
    /\ stage' = "off"
    /\ applyOption' \in ApplyOptions
    /\ loaded' = FALSE
    /\ command' = "serve"
    /\ server' = FALSE
    /\ middleware' = FALSE
    /\ dependencyGraph' = EmptyMap
    /\ reverseDependencyMap' = EmptyMap
    /\ response' = NoResponse
    /\ UNCHANGED <<files, options, pending>>
    /\ UNCHANGED callVars

\* what the handleHotUpdate hook answers: the documents found for the file,
\* the modules returned, the modules invalidated, whether a full-reload
\* message was sent
HotUpdated(file, affected, modules, invalidated, fullReload) ==
    [NoResponse EXCEPT !.hook = "handleHotUpdate", !.path = file,
                       !.affected = affected, !.modules = modules,
                       !.invalidated = invalidated,
                       !.fullReload = fullReload]

\* a full-reload message is sent only when reloading a module throws
FullReloadOnThrowOnly(affectedModules, throwing) == throwing # {}

\* server.ws.send({ type: 'full-reload' }): in the catch of a module whose
\* reload throws, and when no module was found for the affected documents
FullReloadSent(affectedModules, throwing) ==
    IF affectedModules = {} THEN TRUE ELSE throwing # {}

\* the handleHotUpdate hook for a file the watcher reports. Which of the
\* affected documents the module graph knows, for which of them invalidating
\* or reloading throws, and whether it throws before or after the module is
\* invalidated, is up to Vite
HandleHotUpdateHook ==
    /\ stage = "dev"
    /\ loaded
    /\ Interruptible
    /\ \E file \in WatchedFiles :
          IF ~shouldApplyInEnvironment(applyOption, command) \/ ~server
          THEN response' = HotUpdated(file, {}, {}, {}, FALSE)
          ELSE LET changedFile == normalizePath(file)
                   affectedHtmlFiles == Lookup(reverseDependencyMap, changedFile)
               IN  IF affectedHtmlFiles = {}
                   THEN response' = HotUpdated(file, {}, {}, {}, FALSE)
                   ELSE \E affectedModules \in SUBSET affectedHtmlFiles :
                        \E throwing \in SUBSET affectedModules :
                        \E invalidated \in SUBSET affectedModules :
                            /\ (affectedModules \ throwing) \subseteq invalidated
                            /\ response' =
                                   HotUpdated(file, affectedHtmlFiles, affectedModules,
                                       invalidated,
                                       FullReloadSent(affectedModules, throwing))
    /\ UNCHANGED <<files, options, applyOption, stage, loaded, command, server,
                   middleware, dependencyGraph, reverseDependencyMap, pending>>
    /\ UNCHANGED callVars

\* what the preview server answers: the middleware has ended the response
\* with body, or the request went on to the next handler; exists: fs.access
\* found the file; failed: reading the file threw
Previewed(method, url, html, body, ended, next, exists, failed) ==
    [NoResponse EXCEPT !.hook = "preview", !.method = method, !.path = url,
                       !.html = html,
                       !.body = body, !.applied = ended, !.next = next,
                       !.exists = exists, !.failed = failed]

\* a request to the preview server, up to the first await of the middleware
\* (dev-server.ts:35-52): a request that is not a GET for a page goes on to
\* the next handler, for a page fs.access is called
PreviewRequest ==
    /\ stage = "preview"
    /\ Interruptible
    /\ CountOf(pending) < MaxInFlight
    /\ \E method \in Methods, url \in Urls :
          IF ~middleware \/ ~IsHtmlRequest(method, url)
          THEN /\ response' = Previewed(method, url, <<>>, <<>>, FALSE, TRUE,
                                        FALSE, FALSE)
               /\ UNCHANGED pending
               /\ UNCHANGED callVars
          ELSE /\ pending' = Parked \cup {InFlight("preview", "access", method, url,
                                                    <<>>, <<>>, {})}
               /\ response' = NoResponse
               /\ CallOver
    /\ UNCHANGED <<files, options, applyOption, stage, loaded, command, server,
                   middleware, dependencyGraph, reverseDependencyMap>>

\* dev-server.ts:51-57: fs.access has answered; a file that is not there goes
\* on to the next handler, else fs.readFile is called
PreviewAccessed ==
    /\ \E call \in Running :
          /\ call.hook = "preview"
          /\ call.step = "access"
          /\ IF Accessible(RequestedFile(options.root, call.path))
             THEN /\ pending' = (pending \ {call}) \cup {[call EXCEPT !.step = "read"]}
                  /\ UNCHANGED response
             ELSE /\ pending' = pending \ {call}
                  /\ response' = Previewed(call.method, call.path, <<>>, <<>>,
                                           FALSE, TRUE, FALSE, FALSE)
    /\ UNCHANGED <<files, options, applyOption, stage, loaded, command, server,
                   middleware, dependencyGraph, reverseDependencyMap>>
    /\ UNCHANGED callVars

\* dev-server.ts:57-63, 67-69: fs.readFile has answered; what it throws is
\* caught and the request goes on to the next handler, else the expansion of
\* what was read is asked for, under the path of the source file
PreviewRead ==
    /\ \E call \in Running :
          /\ call.hook = "preview"
          /\ call.step = "read"
          /\ LET filePath == RequestedFile(options.root, call.path)
             IN  IF Readable(filePath)
                 THEN /\ pending' = (pending \ {call})
                                         \cup {[call EXCEPT !.step = "expand",
                                                            !.html = files[filePath]]}
                      /\ AskFor(SourceFilePath(options.root, filePath),
                                files[filePath])
                      /\ UNCHANGED response
                 ELSE /\ pending' = pending \ {call}
                      /\ response' = Previewed(call.method, call.path, <<>>, <<>>,
                                               FALSE, TRUE, TRUE, TRUE)
                      /\ UNCHANGED callVars
    /\ UNCHANGED <<files, options, applyOption, stage, loaded, command, server,
                   middleware, dependencyGraph, reverseDependencyMap>>

\* dev-server.ts:63-66: the expansion has come back and ends the response
PreviewEnd ==
    /\ phase = "done"
    /\ \E call \in Running :
          /\ call.hook = "preview"
          /\ call.step = "expand"
          /\ pending' = pending \ {call}
          /\ response' = Previewed(call.method, call.path, call.html,
                                   outcome.code, TRUE, FALSE, TRUE, FALSE)
    /\ CallOver
    /\ UNCHANGED <<files, options, applyOption, stage, loaded, command, server,
                   middleware, dependencyGraph, reverseDependencyMap>>

\* the build output is removed while the preview server runs
DeleteBuilt ==
    /\ stage = "preview"
    /\ Interruptible
    /\ DistIndexHtml \in DOMAIN files
    /\ files' = [p \in DOMAIN files \ {DistIndexHtml} |-> files[p]]
    /\ UNCHANGED <<options, applyOption, stage, loaded, command, server,
                   middleware, dependencyGraph, reverseDependencyMap, pending,
                   response>>
    /\ UNCHANGED callVars

PluginNext ==
    \/ StartDev
    \/ StartBuild
    \/ StartPreview
    \/ TransformIndexHtmlHook
    \/ TransformIndexHtmlAgain
    \/ TransformIndexHtmlRecord
    \/ EmitUntransformed
    \/ BuildEnds
    \/ PreviewRequest
    \/ PreviewAccessed
    \/ PreviewRead
    \/ PreviewEnd
    \/ DeleteBuilt
    \/ Continue
    \/ Next

\* the files of a site before Vite is started, the plugin made with one of
\* the apply options and one of the configurations
SiteInit(site, applies) ==
    /\ files = site
    /\ options \in PluginConfigs
    /\ applyOption \in applies
    /\ top = [filePath |-> IndexHtml, content |-> <<>>]
    /\ phase = "none"
    /\ stack = <<>>
    /\ outcome = [code |-> <<>>, deps |-> {}]
    /\ returned = NoReturn
    /\ events = <<>>
    /\ stage = "off"
    /\ loaded = FALSE
    /\ command = "serve"
    /\ server = FALSE
    /\ middleware = FALSE
    /\ dependencyGraph = EmptyMap
    /\ reverseDependencyMap = EmptyMap
    /\ pending = {}
    /\ response = NoResponse

PluginInit == SiteInit(SiteFiles, ApplyOptions)

PluginSpec == PluginInit /\ [][PluginNext]_vars

\* the dev server: documents are transformed and the watcher reports files.
\* The site has no sub/header.html, and the plugin is made with the apply
\* option left out
ServeNext ==
    \/ StartDev
    \/ TransformIndexHtmlHook
    \/ TransformIndexHtmlAgain
    \/ TransformIndexHtmlRecord
    \/ HandleHotUpdateHook
    \/ Continue
    \/ Next

ServeInit == SiteInit(SiteWithout({SubHeaderHtml}), {ApplyUndefined})

ServeSpec == ServeInit /\ [][ServeNext]_vars

(***************************************************************************)
(* Properties                                                              *)
(***************************************************************************)

\* the call recorded in returned has only just returned: what it was given
\* and what it returned is fixed from then on
JustReturned(kind) == returned.kind = kind /\ returned.lastEvent = Len(events)

Done == phase = "done"

\* some step of the expansion can be taken: the guard of one of the actions holds
CanStep ==
    \/ phase = "idle"
    \/ IsCircular \/ IsTooDeep \/ IsScanned
    \/ AtDirective \/ AtAccess \/ AtRead \/ AtResume
    \/ LoopEnded

Max(S) == CHOOSE x \in S : \A y \in S : y <= x

RECURSIVE Pow(_, _)
Pow(b, e) == IF e = 0 THEN 1 ELSE b * Pow(b, e - 1)

RECURSIVE SumPow(_, _)
SumPow(b, e) == IF e = 0 THEN 1 ELSE Pow(b, e) + SumPow(b, e - 1)

\* most directives in one document of the project
MostDirectives ==
    Max({CountOccurrences(files[p], LitInclude) : p \in DOMAIN files})

\* no expansion takes more events than this: at most MostDirectives^d calls at
\* depth d <= maxDepth, each with a call, a scan, a return and an access and
\* a read per directive
StepBound ==
    SumPow(MostDirectives, options.maxDepth) * (3 + 2 * MostDirectives)

\* how far the innermost call is from the next entry of the history: a call
\* that has got processed back stores it, takes the next directive and
\* calls fs.access, whose answer is the next entry
Rank(st) ==
    IF st = <<>> THEN 0
    ELSE IF st[Len(st)].pc = "loop" THEN 1
    ELSE IF st[Len(st)].pc = "access" THEN 2
    ELSE 0

\* the progress made: three for every entry of the history, and the rank
Progress(ev, st) == 3 * Len(ev) + Rank(st)

\* C1: every top-level expansion terminates, whatever the files, the include
\* graph among them (self-includes and cycles included), the enabled types
\* and maxDepth >= 1.  Every step makes progress, the history never grows
\* beyond a bound fixed by the inputs, no call descends below depth
\* maxDepth, and the expansion is never stuck before it has returned.
C1_Terminates ==
    /\ [](/\ Len(events) <= StepBound
          /\ Len(stack) <= options.maxDepth + 1
          /\ \A k \in 1..Len(stack) : stack[k].depth = k - 1
          /\ (Done \/ CanStep))
    /\ [][Progress(events', stack') > Progress(events, stack)]_vars

\* C1 witness: an expansion that met an include cycle has returned
C1_Witness == Done /\ Contains(outcome.code, LitCircular)

(***************************************************************************)
(* C2: the cycle law                                                       *)
(***************************************************************************)

\* both files can be expanded when included
HtmlEnabled == options.includeFileTypes \in {TypesHtml, TypesTextHtml}

\* a.htm includes b.htm, b.htm includes a.htm, a.htm is expanded
CycleAB ==
    /\ PathA \in DOMAIN files /\ PathB \in DOMAIN files
    /\ files[PathA] = Render(<<ToB>>)
    /\ files[PathB] = Render(<<ToA>>)
    /\ top.filePath = PathA
    /\ HtmlEnabled

DiagnosticABA ==
    LitCircular \o PathA \o LitArrow \o PathB \o LitArrow \o PathA \o LitEnd

\* a.htm with b.htm in place of its directive, and in b.htm the diagnostic in
\* place of the directive to a.htm
ExpandedABA == Text(1) \o (Text(1) \o DiagnosticABA \o Text(2)) \o Text(2)

\* the chain a cycle closure must report, from the calls it is nested in: their
\* normalized paths from the first one equal to its own path on, then its own
ChainOfCallers(r) ==
    LET own   == normalizePath(r.filePath)
        paths == [k \in 1..Len(r.callers) |-> normalizePath(r.callers[k])]
        first == CHOOSE k \in 1..Len(paths) :
                    paths[k] = own /\ \A j \in 1..(k - 1) : paths[j] # own
    IN  Append(SubSeq(paths, first, Len(paths)), own)

\* C2 as stated: whenever a.htm includes b.htm and b.htm includes a.htm, both
\* eligible, expanding a.htm yields exactly one CircularInclude diagnostic,
\* `a -> b -> a`, where b's directive was
C2_Original ==
    (Done /\ CycleAB) =>
        /\ outcome.code = ExpandedABA
        /\ CountOccurrences(outcome.code, LitCircular) = 1

\* C2 amended: the same provided maxDepth >= 2, while with maxDepth = 1 the
\* content of b.htm is replaced by the depth diagnostic and no cycle is
\* reported; and every cycle closure returns the chain that starts at the
\* repeated path, not at the top-level document, and ends with that path
C2_CycleLaw ==
    /\ (Done /\ CycleAB /\ options.maxDepth >= 2) =>
          /\ outcome.code = ExpandedABA
          /\ CountOccurrences(outcome.code, LitCircular) = 1
    /\ (Done /\ CycleAB /\ options.maxDepth = 1) =>
          /\ outcome.code =
                Text(1) \o LitMaxDepth \o <<"1">> \o LitExceeded \o Text(2)
          /\ CountOccurrences(outcome.code, LitCircular) = 0
    /\ JustReturned("circular") =>
          /\ returned.code =
                LitCircular \o JoinWith(ChainOfCallers(returned), LitArrow) \o LitEnd
          /\ Head(ChainOfCallers(returned)) = normalizePath(returned.filePath)
          /\ returned.deps = {}

\* C2 witness: n.md includes b.htm, b.htm includes a.htm, a.htm includes
\* b.htm again: the closure has reported b -> a -> b, without n.md
C2_Witness ==
    /\ returned.kind = "circular"
    /\ returned.callers = <<PathN, PathB, PathA>>
    /\ returned.code =
          LitCircular \o PathB \o LitArrow \o PathA \o LitArrow \o PathB \o LitEnd

(***************************************************************************)
(* C3, C4: the depth law                                                   *)
(***************************************************************************)

\* the project is a chain c1.htm -> c2.htm -> ... expanded from c1.htm
IsChain == ChainPath(1) \in DOMAIN files

\* its number of levels: the files but n.md and d/e/f.md
ChainLevels == Cardinality(DOMAIN files \ {PathN, PathInDir})

ChainTail == CHOOSE tail \in ChainTails : files = ChainFiles(ChainLevels, tail)

\* the texts of levels 1..k, each followed by the next
RECURSIVE LevelTexts(_)
LevelTexts(k) == IF k = 0 THEN <<>> ELSE LevelTexts(k - 1) \o LevelText(k)

\* c1.htm -> ... -> ck.htm -> c1.htm
RECURSIVE ChainPaths(_)
ChainPaths(k) == IF k = 0 THEN <<>> ELSE Append(ChainPaths(k - 1), ChainPath(k))

\* what a fully resolved chain ends with, by the way its last level ends
ResolvedTail(levels, tail) ==
    IF tail = "missing"
    THEN LitNotFound \o ChainPath(levels + 1) \o LitEnd
    ELSE IF tail = "loop"
    THEN LitCircular
         \o JoinWith(Append(ChainPaths(levels), ChainPath(1)), LitArrow) \o LitEnd
    ELSE IF tail = "plain" THEN PlainText
    ELSE IF tail = "directory" THEN LitNotFound \o PathDir \o LitEnd
    ELSE IF tail = "backslash" THEN LitNotFound \o PathSubDir \o LitEnd
    ELSE <<>>

DepthText(n) == LitMaxDepth \o IntToStr(n) \o LitExceeded

\* C3: a chain of N = levels - 1 nested eligible includes below the top-level
\* document is fully resolved, without a depth diagnostic, when maxDepth > N;
\* when maxDepth <= N the output is the first maxDepth levels followed by the
\* depth diagnostic whose number is maxDepth
C3_DepthLaw ==
    (Done /\ IsChain) =>
        LET N == ChainLevels - 1
        IN  IF options.maxDepth > N
            THEN /\ outcome.code =
                        LevelTexts(ChainLevels) \o ResolvedTail(ChainLevels, ChainTail)
                 /\ ~Contains(outcome.code, LitMaxDepth)
                 /\ ~Contains(outcome.code, LitInclude)
            ELSE /\ outcome.code =
                        LevelTexts(options.maxDepth) \o DepthText(options.maxDepth)
                 /\ CountOccurrences(outcome.code, LitMaxDepth) = 1

\* C3 witness: at the law's boundary, a chain of N = 4 includes expanded with
\* maxDepth = 4 has returned four levels and the diagnostic
C3_Witness ==
    /\ Done /\ IsChain /\ ChainLevels = 5 /\ ChainTail = "end"
    /\ options.maxDepth = 4
    /\ outcome.code = LevelTexts(4) \o DepthText(4)

\* the scenario of the edge-case test: six levels, at most three
ScenarioLevels == 6

ScenarioMaxDepth == 3

IsScenario ==
    IsChain /\ ChainLevels = ScenarioLevels /\ options.maxDepth = ScenarioMaxDepth

HasEvent(op, path) == \E k \in 1..Len(events) : events[k].op = op /\ events[k].path = path

Touched(path) == \E k \in 1..Len(events) : events[k].path = path

ScenarioOutput ==
    /\ outcome.code = LevelTexts(ScenarioMaxDepth) \o DepthText(ScenarioMaxDepth)
    /\ \A k \in 1..ScenarioMaxDepth : HasEvent("scan", ChainPath(k))

\* C4 as stated: the output is levels 1 to 3 and the diagnostic, and no file
\* of level 4 or deeper is loaded or scanned
C4_Original ==
    IsScenario =>
        /\ Done => ScenarioOutput
        /\ \A k \in (ScenarioMaxDepth + 1)..(ScenarioLevels + 1) :
              /\ ~HasEvent("access", ChainPath(k))
              /\ ~HasEvent("read", ChainPath(k))
              /\ ~HasEvent("scan", ChainPath(k))

\* C4 amended: the output is levels 1 to 3 and the diagnostic; level 4 is
\* loaded (and is a dependency) but never scanned; no file of level 5 or
\* deeper is loaded or scanned
C4_Scenario ==
    IsScenario =>
        /\ Done =>
              /\ ScenarioOutput
              /\ HasEvent("access", ChainPath(ScenarioMaxDepth + 1))
              /\ HasEvent("read", ChainPath(ScenarioMaxDepth + 1))
              /\ outcome.deps = {ChainPath(k) : k \in 2..(ScenarioMaxDepth + 1)}
        /\ ~HasEvent("scan", ChainPath(ScenarioMaxDepth + 1))
        /\ \A k \in (ScenarioMaxDepth + 2)..(ScenarioLevels + 1) :
              ~Touched(ChainPath(k))

\* C4 witness: the scenario has returned, with level 4 read
C4_Witness ==
    /\ IsScenario /\ Done
    /\ HasEvent("read", ChainPath(ScenarioMaxDepth + 1))
    /\ Contains(outcome.code, DepthText(ScenarioMaxDepth))

(***************************************************************************)
(* References the results are compared with                                *)
(***************************************************************************)

\* every file of the projects lies in the root directory and no target has a
\* dot segment: a target names the file of that name under the root, whether
\* it is written root-relative or file-relative
FlatTarget(virtualPath) ==
    Root \o <<"/">> \o (IF Head(virtualPath) = "/" THEN Tail(virtualPath)
                       ELSE virtualPath)

\* the enabled type names are tried in the order they are written in, from
\* the t-th on, in whatever case they are written: "true" at the type of the
\* file, "TypeError" at a name the map inherits
RECURSIVE EligibleFrom(_, _)
EligibleFrom(path, t) ==
    IF t > Len(options.includeFileTypes) THEN "false"
    ELSE LET name == ToLowerCase(options.includeFileTypes[t])
         IN  IF name \in InheritedNames THEN "TypeError"
             ELSE IF \/ name = <<"h","t","m","l">> /\ EndsWith(path, <<".","h","t","m">>)
                     \/ name = <<"t","e","x","t">> /\ EndsWith(path, <<".","m","d">>)
             THEN "true"
             ELSE EligibleFrom(path, t + 1)

\* the files of the projects are .htm and .md: .htm is of type html, .md of
\* type text; a file is eligible ("true") when its type is enabled, the check
\* throws ("TypeError") when an inherited name is tried before, and a path
\* without an extension is never eligible
Eligible(path) ==
    IF \A k \in 1..Len(path) : path[k] # "." THEN "false"
    ELSE EligibleFrom(path, 1)

NotFoundText(path) == LitNotFound \o path \o LitEnd

(***************************************************************************)
(* C5: splicing                                                            *)
(***************************************************************************)

\* the replacement stored for the directive that starts at offset start
ReplacementAt(replacements, start) ==
    (CHOOSE k \in 1..Len(replacements) : replacements[k].start = start)

\* the untouched segments and the replacements in document order: from offset
\* from on, directives k.. of matches
RECURSIVE Rebuild(_, _, _, _, _)
Rebuild(content, matches, replacements, k, from) ==
    IF k > Len(matches) THEN SliceFrom(content, from)
    ELSE Slice(content, from, matches[k].index)
         \o replacements[ReplacementAt(replacements, matches[k].index)].replacement
         \o Rebuild(content, matches, replacements, k + 1,
                    matches[k].index + matches[k].length)

\* the spans found are the directives of the document, in document order, and
\* each has one replacement, stored with its own span
SpansReplaced(r) ==
    /\ Len(r.replacements) = Len(r.matches)
    /\ Len(r.matches) = CountOccurrences(r.content, LitInclude)
    /\ \A k \in 1..Len(r.matches) :
          LET m == r.matches[k]
          IN  /\ Slice(r.content, m.index, m.index + m.length)
                    = Directive(m.virtualPath)
              /\ k > 1 => r.matches[k - 1].index + r.matches[k - 1].length <= m.index
              /\ Cardinality({j \in 1..Len(r.replacements) :
                                 r.replacements[j].start = m.index}) = 1
              /\ r.replacements[ReplacementAt(r.replacements, m.index)].end
                    = m.index + m.length

\* C5: the text returned by a call that scanned its document is the original
\* buffer with every directive's span replaced by that directive's own
\* replacement and every other character kept: the untouched segments and the
\* replacements concatenated in document order, whatever their lengths
C5_Splice ==
    JustReturned("expanded") =>
        /\ SpansReplaced(returned)
        /\ returned.code =
              Rebuild(returned.content, returned.matches, returned.replacements, 1, 0)
        /\ \A ts \in [1..2 -> Targets] :
              returned.content = Render(ts) =>
                  \E r1, r2 \in {returned.replacements[j].replacement :
                                    j \in 1..Len(returned.replacements)} :
                      /\ returned.code = Text(1) \o r1 \o Text(2) \o r2 \o Text(3)
                      /\ r1 = returned.replacements[2].replacement
                      /\ r2 = returned.replacements[1].replacement

\* C5 witness: a document with two directives has returned, the first replaced
\* by a text shorter than the directive, the second by a longer one
C5_Witness ==
    /\ returned.kind = "expanded"
    /\ Len(returned.matches) = 2
    /\ Len(returned.replacements[2].replacement) < returned.matches[1].length
    /\ Len(returned.replacements[1].replacement) > returned.matches[2].length

(***************************************************************************)
(* C6: a directive whose target cannot be loaded                           *)
(***************************************************************************)

\* what replaces a directive that is not expanded by a nested call
FlatReplacement(virtualPath) ==
    IF FlatTarget(virtualPath) \in DOMAIN files
    THEN files[FlatTarget(virtualPath)]
    ELSE NotFoundText(FoldBackslash(FlatTarget(virtualPath)))

\* Render(ts) with every directive replaced by its flat replacement
RECURSIVE FlatFrom(_, _)
FlatFrom(ts, k) ==
    IF k > Len(ts) THEN Text(k)
    ELSE Text(k) \o FlatReplacement(ts[k]) \o FlatFrom(ts, k + 1)

\* no target of ts is expanded by a nested call, and the type check of none
\* throws
AllFlat(ts) ==
    \A k \in 1..Len(ts) :
        FlatTarget(ts[k]) \in DOMAIN files => Eligible(FlatTarget(ts[k])) = "false"

\* the innermost call waits for fs.access of a target that cannot be
\* accessed, or for fs.readFile of a target that cannot be read
AtUnreadable ==
    \/ AtAccess /\ ~Accessible(Current.resolvedPath)
    \/ AtRead /\ ~Readable(Current.resolvedPath)

\* the step of the call at such a directive: the call goes on with the
\* directive before it, having stored the diagnostic for this one
Contained ==
    AtUnreadable =>
        /\ phase' = "running"
        /\ Len(stack') = Len(stack)
        /\ stack'[Len(stack')].i = Top.i - 1
        /\ stack'[Len(stack')].content = Top.content
        /\ stack'[Len(stack')].replacements =
              Append(Top.replacements,
                  [start |-> Top.matches[Top.i + 1].index,
                   end |-> Top.matches[Top.i + 1].index + Top.matches[Top.i + 1].length,
                   replacement |->
                       NotFoundText(normalizePath(
                           resolveIncludePath(Top.matches[Top.i + 1].virtualPath,
                                              Top.filePath, options.root)))])

\* C6: a directive whose target cannot be accessed or read (a file that does
\* not exist, a directory) is replaced by the File not found diagnostic with
\* the normalized path; the call goes on with the other directives, which are
\* processed as they would be without it (a file that is not expanded is
\* inserted as it is, unless its type check throws), and returns a result: no
\* call ends in an error
C6_Contained ==
    /\ [](/\ phase \in {"idle", "running", "done"}
          /\ JustReturned("expanded") =>
                /\ Len(returned.replacements) = Len(returned.matches)
                /\ \A k \in 1..Len(returned.matches) :
                      LET m == returned.matches[k]
                          r == returned.replacements[
                                   ReplacementAt(returned.replacements, m.index)]
                      IN  /\ FlatTarget(m.virtualPath) \notin DOMAIN files =>
                                r.replacement =
                                    NotFoundText(FoldBackslash(FlatTarget(m.virtualPath)))
                          /\ (/\ FlatTarget(m.virtualPath) \in DOMAIN files
                              /\ Eligible(FlatTarget(m.virtualPath)) = "false") =>
                                r.replacement = files[FlatTarget(m.virtualPath)]
          /\ Done =>
                \A ts \in SeqsUpTo(Targets, MaxDirectives) :
                    (top.content = Render(ts) /\ AllFlat(ts)) =>
                        outcome.code = FlatFrom(ts, 1))
    /\ [][Contained]_vars

\* C6 witness: a.htm with a directive to a missing file and one to n.md has
\* returned the diagnostic and, after it, the content of n.md
C6_Witness ==
    /\ Done /\ top.filePath = PathA
    /\ top.content = Render(<<ToMissing, ToN>>)
    /\ PathN \in DOMAIN files /\ files[PathN] = Inert
    /\ options.includeFileTypes = TypesHtml
    /\ outcome.code = Text(1) \o LitNotFound \o Root \o <<"/">> \o ToMissing \o LitEnd
                        \o Text(2) \o Inert \o Text(3)

(***************************************************************************)
(* C7: dependencies                                                        *)
(***************************************************************************)

\* the part of the history that belongs to the call r: from its call to its
\* return, the calls nested in it included
EventsOf(r) == SubSeq(events, r.firstEvent, r.lastEvent)

\* the normalized targets of the directives met in the subtree of the call r:
\* each directive that is processed has its target accessed
TargetsOf(r) ==
    {normalizePath(EventsOf(r)[k].path) :
        k \in {j \in 1..Len(EventsOf(r)) : EventsOf(r)[j].op = "access"}}

\* access events of r whose target does not exist
MissingOf(r) == {p \in TargetsOf(r) : p \notin DOMAIN files}

\* the files read in the subtree of r and scanned by a nested call
ScannedOf(r) ==
    {normalizePath(EventsOf(r)[k].path) :
        k \in {j \in 1..Len(EventsOf(r)) :
                  EventsOf(r)[j].op = "scan" /\ EventsOf(r)[j].depth > r.depth}}

\* C7: the dependency set returned by a call holds the normalized target of
\* every directive of its inclusion subtree: of its own directives, whatever
\* the target, of the directives of the files expanded below it, of targets
\* that do not exist, expanded or not
C7_Dependencies ==
    /\ JustReturned("expanded") =>
          /\ \A k \in 1..Len(returned.matches) :
                FoldBackslash(FlatTarget(returned.matches[k].virtualPath))
                    \in returned.deps
          /\ TargetsOf(returned) \subseteq returned.deps
          /\ returned.deps \subseteq TargetsOf(returned)
    /\ (Done /\ IsChain /\ options.maxDepth > ChainLevels) =>
          outcome.deps =
              {ChainPath(k) : k \in 2..ChainLevels}
              \cup (IF ChainTail = "missing" THEN {ChainPath(ChainLevels + 1)}
                    ELSE IF ChainTail = "plain" THEN {PathN}
                    ELSE IF ChainTail = "loop" THEN {ChainPath(1)}
                    ELSE IF ChainTail = "directory" THEN {PathDir}
                    ELSE IF ChainTail = "backslash" THEN {PathSubDir}
                    ELSE {})

\* C7 witness: a top-level call has returned with, in its dependencies, a
\* file that does not exist and is the target of a directive two levels below
\* it, and files that were expanded and files that were not
C7_Witness ==
    /\ Done /\ returned.depth = 0
    /\ \E p \in MissingOf(returned) :
          /\ p \in outcome.deps
          /\ \E k \in 1..Len(events) :
                events[k].op = "access" /\ events[k].path = p /\ events[k].depth = 2
    /\ \E p \in outcome.deps : p \in ScannedOf(returned)
    /\ \E p \in outcome.deps : p \in DOMAIN files /\ p \notin ScannedOf(returned)

(***************************************************************************)
(* C8: documents without directives                                        *)
(***************************************************************************)

\* the documents of the projects write their directives in one way
NoDirective(content) == ~Contains(content, LitInclude)

\* C8: a call that scans a document with no directive returns the document
\* and no dependency; so does the top-level call, whatever the file and the
\* options; and a result that holds no directive is a document of this kind:
\* nothing is found in it and nothing is replaced
C8_Identity ==
    /\ (JustReturned("expanded") /\ NoDirective(returned.content)) =>
          /\ returned.code = returned.content
          /\ returned.deps = {}
    /\ (Done /\ NoDirective(top.content)) =>
          outcome = [code |-> top.content, deps |-> {}]
    /\ (Done /\ NoDirective(outcome.code)) =>
          /\ ScanDirectives(outcome.code) = <<>>
          /\ ApplyReplacements(outcome.code, <<>>) = outcome.code

\* C8 witness: the top-level document n.md, a comment that is no directive,
\* has been returned as it is
C8_Witness ==
    /\ Done /\ top.filePath = PathN /\ top.content = Inert
    /\ outcome = [code |-> Inert, deps |-> {}]

(***************************************************************************)
(* C9: files that are inserted as they are                                 *)
(***************************************************************************)

\* the target of the directive exists and is not expanded
IsRaw(m) ==
    /\ FlatTarget(m.virtualPath) \in DOMAIN files
    /\ Eligible(FlatTarget(m.virtualPath)) # "true"

\* by how much the replacements of the directives before the k-th have moved
\* the text behind them
RECURSIVE Shift(_, _)
Shift(r, k) ==
    IF k <= 1 THEN 0
    ELSE Shift(r, k - 1)
         + Len(r.replacements[ReplacementAt(r.replacements,
                                            r.matches[k - 1].index)].replacement)
         - r.matches[k - 1].length

\* the raw content of the target of the k-th directive stands in the result
\* where the directive stood, between the texts that surrounded the directive
RawInPlace(r, k) ==
    LET m     == r.matches[k]
        raw   == files[FlatTarget(m.virtualPath)]
        at    == m.index + Shift(r, k)
        next  == IF k < Len(r.matches) THEN r.matches[k + 1].index
                 ELSE Len(r.content)
        prev  == IF k > 1 THEN r.matches[k - 1].index + r.matches[k - 1].length
                 ELSE 0
    IN  /\ Slice(r.code, at, at + Len(raw)) = raw
        /\ Slice(r.code, at + Len(raw), at + Len(raw) + next - (m.index + m.length))
              = Slice(r.content, m.index + m.length, next)
        /\ Slice(r.code, at - (m.index - prev), at) = Slice(r.content, prev, m.index)

\* C9 (refuted by the code): where a directive of a document has an existing
\* target that is not eligible, the raw content of the target stands in the
\* result exactly where the directive stood
C9_RawSpliced ==
    JustReturned("expanded") =>
        \A k \in 1..Len(returned.matches) :
            IsRaw(returned.matches[k]) => RawInPlace(returned, k)

(***************************************************************************)
(* C10: the default, no type enabled                                       *)
(***************************************************************************)

\* C10: with an empty includeFileTypes no nested call is made: every file
\* that is read, .htm or .md, is inserted as it is and only the top-level
\* document is scanned; and the top-level document is scanned and expanded
\* whatever its extension and whatever types are enabled
C10_Default ==
    /\ options.includeFileTypes = <<>> =>
          /\ Len(stack) <= 1
          /\ \A k \in 1..Len(events) :
                /\ events[k].depth = 0
                /\ events[k].op \in {"call", "scan"} => k <= 2
                /\ events[k].op = "read" =>
                      /\ events[k].path \in DOMAIN files
                      /\ events[k - 1] = [events[k] EXCEPT !.op = "access"]
          /\ JustReturned("expanded") =>
                \A k \in 1..Len(returned.matches) :
                    LET target == FlatTarget(returned.matches[k].virtualPath)
                    IN  target \in DOMAIN files =>
                            returned.replacements[ReplacementAt(
                                returned.replacements,
                                returned.matches[k].index)].replacement
                                = files[target]
          /\ Done =>
                \A ts \in SeqsUpTo(Targets, MaxDirectives) :
                    top.content = Render(ts) => outcome.code = FlatFrom(ts, 1)
    /\ Len(events) >= 2 =>
          /\ events[1] = Event("call", top.filePath, 0)
          /\ events[2] = Event("scan", top.filePath, 0)
    /\ Done =>
          /\ returned.kind = "expanded" /\ returned.depth = 0
          /\ returned.filePath = top.filePath /\ returned.content = top.content
          /\ Len(returned.replacements) = CountOccurrences(top.content, LitInclude)
          /\ outcome.code = returned.code

\* C10 witness: with no type enabled, n.md has been expanded as the top-level
\* document and b.htm, which holds a directive, stands in it as it is
C10_Witness ==
    /\ Done /\ options.includeFileTypes = <<>>
    /\ top.filePath = PathN
    /\ PathB \in DOMAIN files /\ files[PathB] = Render(<<ToA>>)
    /\ outcome.code = Text(1) \o Render(<<ToA>>) \o Text(2)
    /\ outcome.deps = {PathB}

(***************************************************************************)
(* The step-by-step calls and processSsi as a function agree                *)
(***************************************************************************)

\* what the top-level call returns is what processSsi computes from its
\* arguments and the files alone
AgreesWithFunction ==
    Done => outcome = processSsi(files, top.filePath, top.content, options)

(***************************************************************************)
(* C16: no state is kept between top-level calls                           *)
(***************************************************************************)

\* the results of the earlier calls of the session for the document that the
\* call in progress or just finished is for
EarlierResults ==
    {k \in Results :
        events[k].path = top.filePath /\ events[k].content = top.content}

\* C16: the result of an expansion is determined by the document, the
\* configuration and the file contents: a call returns the same text and
\* the same dependency set as every earlier call for the same document,
\* whichever documents were expanded before it or in between
C16_Deterministic ==
    Done =>
        /\ outcome = processSsi(files, top.filePath, top.content, options)
        /\ \A k \in EarlierResults :
               /\ events[k].code = outcome.code
               /\ events[k].deps = outcome.deps

\* C16 witness: a document with a cycle was expanded, then another document,
\* then the first one again
C16_Witness ==
    /\ Done
    /\ Contains(outcome.code, LitCircular)
    /\ \E j \in EarlierResults :
          \E k \in Results : k > j /\ events[k].path # top.filePath

(***************************************************************************)
(* C11: nested includes with the default options                           *)
(***************************************************************************)

LitSsiError == <<"S","S","I"," ","E","r","r","o","r">>

\* the options of a plugin created without options
DefaultOptions ==
    options.maxDepth = DefaultMaxDepth /\ options.includeFileTypes = <<>>

\* index.html includes sub/wrapper.html, which includes its header and the
\* content; every file exists
NestedProject ==
    /\ IndexHtml \in DOMAIN files
    /\ top.filePath = IndexHtml
    /\ files[IndexHtml] = Page(<<"I">>, <<ToWrapper>>)
    /\ files[WrapperHtml] = Page(<<"W">>, <<ToHeader, ToContent>>)
    /\ SubHeaderHtml \in DOMAIN files

\* C11 (refuted by the code): with the default options the nested includes of
\* index.html are all resolved: the content of the nested files is in the
\* output, no directive is left and there is no SSI error
C11_NestedResolved ==
    (Done /\ NestedProject /\ DefaultOptions) =>
        /\ Contains(outcome.code, SubHeaderText)
        /\ Contains(outcome.code, ContentText)
        /\ ~Contains(outcome.code, LitInclude)
        /\ ~Contains(outcome.code, LitSsiError)

(***************************************************************************)
(* C14: where files are accessed                                           *)
(***************************************************************************)

InsideRoot(path) == HasPrefixAt(path, 1, Root \o <<"/">>)

\* C14 (refuted by the code): every path on which the expander performs an
\* existence check or a read lies inside the project root
C14_InsideRoot ==
    \A k \in 1..Len(events) :
        events[k].op \in {"access", "read"} => InsideRoot(events[k].path)

(***************************************************************************)
(* C17: path resolution                                                    *)
(***************************************************************************)

\* the directory of an absolute file path: what precedes its last separator
DirOf(file) ==
    SubSeq(file, 1,
           (CHOOSE k \in 1..Len(file) :
               file[k] = "/" /\ \A j \in (k + 1)..Len(file) : file[j] # "/") - 1)

NoDots(target) == ~Contains(target, <<".", ".">>)

\* where a target without dot segments leads: under the root when it begins
\* with the separator, else next to the file that holds the directive
RefResolve(target, file) ==
    IF Head(target) = "/" THEN Root \o target
    ELSE DirOf(file) \o <<"/">> \o target

\* the call r has accessed path itself, not through a nested call
AccessedBy(r, path) ==
    \E k \in r.firstEvent..r.lastEvent :
        events[k] = Event("access", path, r.depth)

\* C17: a target that begins with `/` is resolved under the project root, any
\* other target next to the file that holds the directive, so a relative
\* include inside an included file resolves against that file and not
\* against the top-level document
C17_Resolution ==
    /\ JustReturned("expanded") =>
          \A k \in 1..Len(returned.matches) :
              LET target == returned.matches[k].virtualPath
                  path   == RefResolve(target, returned.filePath)
                  r      == returned.replacements[
                                ReplacementAt(returned.replacements,
                                              returned.matches[k].index)]
              IN  NoDots(target) =>
                      /\ AccessedBy(returned, path)
                      /\ path \in returned.deps
                      /\ path \notin DOMAIN files =>
                            r.replacement = NotFoundText(path)
                      /\ (path \in DOMAIN files /\ options.includeFileTypes = <<>>) =>
                            r.replacement = files[path]
    /\ (Done /\ NestedProject /\ options.includeFileTypes = TypesHtml
             /\ options.maxDepth > 2) =>
          /\ outcome.code =
                <<"I", "[", "W", "[">> \o SubHeaderText \o <<"]", "[">>
                    \o ContentText \o <<"]", "]">>
          /\ outcome.deps = {WrapperHtml, SubHeaderHtml, ContentHtml}

\* C17 witness: the wrapper in sub/ was expanded as an included file; its
\* header.html was taken from sub/, its /content.html from the root
C17_Witness ==
    /\ Done /\ NestedProject
    /\ HasEvent("read", SubHeaderHtml)
    /\ HasEvent("read", ContentHtml)
    /\ ~Touched(RootHeaderHtml)
    /\ RootHeaderHtml \in DOMAIN files
    /\ Contains(outcome.code, SubHeaderText \o <<"]", "[">> \o ContentText)

(***************************************************************************)
(* C18, C19: the early returns                                             *)
(***************************************************************************)

\* the call that has just returned was made for a path of its ancestor chain
ReturnedOnChain == SeenHas(returned.seenIn, normalizePath(returned.filePath))

EarlyKinds == {"circular", "depth"}

\* C18: the cycle check precedes the depth check: a call for a path of its
\* ancestor chain returns the circular diagnostic whatever its depth, and the
\* depth diagnostic is returned only for a path that is not in the chain
C18_CycleFirst ==
    \A kind \in {"circular", "depth", "expanded"} :
        JustReturned(kind) =>
            /\ ReturnedOnChain =>
                  /\ kind = "circular"
                  /\ returned.code = CircularDiagnostic(returned.seenIn,
                                         normalizePath(returned.filePath))
            /\ kind = "circular" => ReturnedOnChain
            /\ kind = "depth" =>
                  /\ ~ReturnedOnChain
                  /\ returned.depth >= options.maxDepth
                  /\ returned.code = MaxDepthDiagnostic(options.maxDepth)
            /\ kind = "expanded" =>
                  /\ ~ReturnedOnChain
                  /\ returned.depth < options.maxDepth

\* C18 witness: a call that closes a cycle at a depth that has reached the
\* limit has returned the circular diagnostic
C18_Witness ==
    /\ JustReturned("circular")
    /\ returned.depth >= options.maxDepth
    /\ Contains(returned.code, LitCircular)

\* C19: a call that returns the circular or the depth diagnostic returns no
\* dependency, has scanned nothing and accessed no file (its call is directly
\* followed by its return) and has left the chain it received as it was, in
\* its own set and in its caller's
C19_EarlyReturn ==
    \A kind \in EarlyKinds :
        JustReturned(kind) =>
            /\ returned.deps = {}
            /\ returned.matches = <<>>
            /\ returned.replacements = <<>>
            /\ returned.lastEvent = returned.firstEvent + 1
            /\ events[returned.firstEvent] =
                   Event("call", returned.filePath, returned.depth)
            /\ returned.seen = returned.seenIn
            /\ stack # <<>> => Top.seen = returned.seenIn

\* C19 witness: a call cut off by the depth limit has returned although its
\* content holds a directive, which was not scanned
C19_Witness ==
    /\ JustReturned("depth")
    /\ ScanDirectives(returned.content) # <<>>
    /\ returned.seenIn # <<>>

(***************************************************************************)
(* C20: the order of the loop and the stored windows                       *)
(***************************************************************************)

\* the paths the call r has accessed itself, in the order of the accesses
OwnAccesses(r) ==
    LET Own(e) == e.op = "access" /\ e.depth = r.depth
        own == SelectSeq(EventsOf(r), Own)
    IN  [k \in 1..Len(own) |-> own[k].path]

\* the buffer `result` after the first k stored replacements were applied
RECURSIVE BufferAfter(_, _, _)
BufferAfter(content, replacements, k) ==
    IF k = 0 THEN content
    ELSE Splice(BufferAfter(content, replacements, k - 1), replacements[k])

\* C20: within one call the directives are resolved, loaded and replaced from
\* the highest offset to the lowest, and when a stored replacement is applied
\* the buffer up to the end of its window is still the original content, so
\* the window still covers its directive
C20_ReverseOrder ==
    JustReturned("expanded") =>
        LET n == Len(returned.matches)
            m(k) == returned.matches[n + 1 - k]
        IN  /\ Len(returned.replacements) = n
            /\ Len(OwnAccesses(returned)) = n
            /\ \A k \in 1..n :
                  LET w == returned.replacements[k]
                      b == BufferAfter(returned.content, returned.replacements, k - 1)
                  IN  /\ w.start = m(k).index
                      /\ w.end = m(k).index + m(k).length
                      /\ k > 1 => w.start < returned.replacements[k - 1].start
                      /\ OwnAccesses(returned)[k] =
                             resolveIncludePath(m(k).virtualPath,
                                                returned.filePath, options.root)
                      /\ w.end <= Len(b)
                      /\ SubSeq(b, 1, w.end) = SubSeq(returned.content, 1, w.end)
            /\ returned.code =
                   BufferAfter(returned.content, returned.replacements, n)

\* C20 witness: a call with two directives has returned, and the replacement
\* applied first has changed the length of the buffer
C20_Witness ==
    /\ JustReturned("expanded")
    /\ Len(returned.matches) >= 2
    /\ Len(returned.replacements[1].replacement) #
           returned.replacements[1].end - returned.replacements[1].start
    /\ OwnAccesses(returned)[1] # OwnAccesses(returned)[2]

(***************************************************************************)
(* C12: the dependency index                                               *)
(***************************************************************************)

\* the documents whose recorded dependency set holds path
RecordedDependents(path) ==
    {d \in DOMAIN dependencyGraph : path \in dependencyGraph[d]}

\* every path that was ever recorded as a dependency or is one now
KnownDependencies ==
    DOMAIN reverseDependencyMap
        \cup UNION {dependencyGraph[d] : d \in DOMAIN dependencyGraph}

\* C12 (refuted by the code): after any sequence of transformIndexHtml calls
\* the lookup of a dependency path returns exactly the documents whose most
\* recently recorded dependency set contains that path
C12_IndexExact ==
    \A path \in KnownDependencies :
        Lookup(reverseDependencyMap, path) = RecordedDependents(path)

(***************************************************************************)
(* C13: hot updates reach the documents that include the changed file      *)
(***************************************************************************)

\* the files the directives of file p name, p read from fs
DirectIncludes(fs, p) ==
    IF p \in DOMAIN fs
    THEN {RefResolve(ScanDirectives(fs[p])[k].virtualPath, p) :
             k \in 1..Len(ScanDirectives(fs[p]))}
    ELSE {}

\* the files reached from the set S by following directives n times
RECURSIVE IncludedWithin(_, _, _)
IncludedWithin(fs, S, n) ==
    IF n = 0 THEN S
    ELSE IncludedWithin(fs, S \cup UNION {DirectIncludes(fs, p) : p \in S}, n - 1)

\* the files document includes, directly or through a chain of includes
IncludedBy(fs, document) ==
    IncludedWithin(fs, DirectIncludes(fs, document), Cardinality(DOMAIN fs))

\* the dev server has just transformed a document that is still as it was
\* when the hook was called
JustTransformed ==
    /\ stage = "dev"
    /\ response.hook = "transformIndexHtml"
    /\ response.applied
    /\ files[response.path] = response.html

\* C13 (refuted by the code): once the dev server has transformed a document,
\* the hot-update handler finds the document among those affected by a change
\* to any file the document includes, directly or through a chain; and what
\* the handler reports as affected is what it finds
C13_Propagates ==
    /\ JustTransformed =>
          \A f \in IncludedBy(files, response.path) :
              normalizePath(response.path) \in
                  Lookup(reverseDependencyMap, normalizePath(f))
    /\ (response.hook = "handleHotUpdate" /\ server
            /\ shouldApplyInEnvironment(applyOption, command)) =>
          response.affected =
              Lookup(reverseDependencyMap, normalizePath(response.path))

(***************************************************************************)
(* C15: commands the apply option excludes                                 *)
(***************************************************************************)

\* the apply option names another command, or switches this one off
Excludes(apply, cmd) ==
    \/ apply.form = "string" /\ apply.value # cmd
    \/ apply.form = "object" /\ cmd = "serve" /\ apply.serve = "false"
    \/ apply.form = "object" /\ cmd = "build" /\ apply.build = "false"
    \/ apply.form = "object" /\ cmd = "preview" /\ apply.preview = "false"

\* Vite serves or builds with an apply option that excludes what it does
Excluded ==
    /\ stage \in {"dev", "build"}
    /\ Excludes(applyOption, ViteCommand(stage))

\* the preview server has answered a GET for index.html, which was built
IndexRequested ==
    /\ stage = "preview"
    /\ response.hook = "preview"
    /\ response.method = "GET"
    /\ response.path \in {<<"/">>, LitIndexUrl \o <<"?","v","=","1">>}
    /\ DistIndexHtml \in DOMAIN files

\* C15 (refuted by the code): while the apply option excludes the command
\* Vite runs, the transformIndexHtml hook returns the HTML it was given,
\* directives included, nothing is recorded in the dependency index and the
\* build writes what the hook returned, index.html as it is; and a preview
\* server whose apply option enables preview answers a GET for the built
\* index.html with its expansion
C15_Excluded ==
    /\ Excluded =>
          /\ pending = {}
          /\ dependencyGraph = EmptyMap
          /\ reverseDependencyMap = EmptyMap
          /\ response.hook = "transformIndexHtml" =>
                /\ ~response.applied
                /\ response.body = response.html
                /\ Contains(response.body, LitInclude)
                /\ stage = "build" =>
                      /\ response.html = files[IndexHtml]
                      /\ files[DistIndexHtml] = response.html
    /\ (IndexRequested /\ ~Excludes(applyOption, "preview")) =>
          /\ ~response.next
          /\ response.html = files[DistIndexHtml]
          /\ response.body =
                 processSsi(files, IndexHtml, files[DistIndexHtml], options).code

(***************************************************************************)
(* C21: the descents of one level                                          *)
(***************************************************************************)

\* the history of the call r as the call itself sees it: its own events and
\* the calls and returns of the calls it makes, without what happens inside
NearEvents(r) ==
    LET Near(e) == \/ e.depth = r.depth
                   \/ e.depth = r.depth + 1 /\ e.op \in {"call", "return"}
    IN  SelectSeq(EventsOf(r), Near)

\* what resolving one directive of the call r with target resolvedPath adds
\* to that history: the access, then the read, then the whole recursive call
DescentOf(r, resolvedPath) ==
    IF ~Accessible(resolvedPath)
    THEN <<Event("access", resolvedPath, r.depth)>>
    ELSE IF \/ ~Readable(resolvedPath)
            \/ shouldProcessSsi(resolvedPath, options.includeFileTypes,
                                options.fileTypeMap) # "true"
    THEN <<Event("access", resolvedPath, r.depth), Event("read", resolvedPath, r.depth)>>
    ELSE <<Event("access", resolvedPath, r.depth), Event("read", resolvedPath, r.depth),
           Event("call", resolvedPath, r.depth + 1),
           Event("return", resolvedPath, r.depth + 1)>>

\* the descents of the directives order[1], order[2], ... of r, one after the other
RECURSIVE DescentsFrom(_, _, _)
DescentsFrom(r, order, k) ==
    IF k > Len(order) THEN <<>>
    ELSE DescentOf(r, resolveIncludePath(r.matches[order[k]].virtualPath,
                                         r.filePath, options.root))
             \o DescentsFrom(r, order, k + 1)

\* call, scan, the descents in the given order of the directives, return
HistoryInOrder(r, order) ==
    <<Event("call", r.filePath, r.depth), Event("scan", r.filePath, r.depth)>>
        \o DescentsFrom(r, order, 1)
        \o <<Event("return", r.filePath, r.depth)>>

\* C21 as stated: within one level the descents are made one after the other
\* in document order, the access and the recursion for an earlier directive
\* being complete before those of a later directive begin
C21_Original ==
    JustReturned("expanded") =>
        NearEvents(returned) =
            HistoryInOrder(returned, [k \in 1..Len(returned.matches) |-> k])

\* C21: within one level the descents are made one after the other and never
\* overlap, in reverse document order: the access, the read and the whole
\* recursive call for a later directive of the document are complete before
\* those of an earlier directive begin
C21_Sequential ==
    JustReturned("expanded") =>
        NearEvents(returned) =
            HistoryInOrder(returned,
                [k \in 1..Len(returned.matches) |-> Len(returned.matches) + 1 - k])

\* C21 witness: a call with two directives to different files has returned,
\* and it has made a recursive call for each of them
C21_Witness ==
    /\ JustReturned("expanded")
    /\ Len(returned.matches) = 2
    /\ returned.matches[1].virtualPath # returned.matches[2].virtualPath
    /\ Len(NearEvents(returned)) = 11

(***************************************************************************)
(* C23: the ancestor chain and the depth of every call                     *)
(***************************************************************************)

NoDuplicate(seen) ==
    \A j, k \in 1..Len(seen) : seen[j] = seen[k] => j = k

\* the normalized paths of the calls for the files callers, outermost first
NormalizedChain(callers) == [j \in 1..Len(callers) |-> normalizePath(callers[j])]

\* C23: in every call of every call tree the ancestor chain holds no path
\* twice, the depth is one more than the depth of the caller and 0 at the top
\* level, and on entry the chain holds exactly depth elements: the normalized
\* paths of the calls from the top-level document down to the caller
C23_ChainAndDepth ==
    /\ \A k \in 1..Len(stack) :
          LET f == stack[k]
          IN  /\ NoDuplicate(f.seen)
              /\ NoDuplicate(f.seenIn)
              /\ f.depth = IF k = 1 THEN 0 ELSE stack[k - 1].depth + 1
              /\ Len(f.seenIn) = f.depth
              /\ f.seenIn = NormalizedChain([j \in 1..(k - 1) |-> stack[j].filePath])
    /\ returned.kind # "none" =>
          /\ NoDuplicate(returned.seen)
          /\ returned.depth = Len(returned.callers)
          /\ Len(returned.seenIn) = returned.depth
          /\ returned.seenIn = NormalizedChain(returned.callers)

\* C23 witness: a call three levels below the top-level document is entered
\* for a file that is already in its chain of four paths
C23_Witness ==
    /\ IsCircular
    /\ Top.depth = 4
    /\ Len(Top.seenIn) = 4
    /\ Len(stack) = 5

(***************************************************************************)
(* C25: the dependency set of a call and the sets of its child calls       *)
(***************************************************************************)

\* the normalized targets of the directives of the call r itself
OwnTargets(r) ==
    {normalizePath(resolveIncludePath(r.matches[k].virtualPath, r.filePath, options.root)) :
        k \in 1..Len(r.matches)}

\* the union of the dependency sets the recursive calls made by r returned
ChildDeps(r) == UNION {r.children[k] : k \in 1..Len(r.children)}

\* the directives of r for which r made a recursive call
RecursedOf(r) ==
    {k \in 1..Len(r.matches) :
        LET resolvedPath == resolveIncludePath(r.matches[k].virtualPath, r.filePath, options.root)
        IN  /\ resolvedPath \in DOMAIN files
            /\ shouldProcessSsi(resolvedPath, options.includeFileTypes,
                                options.fileTypeMap) = "true"}

\* C25: the dependency set a call returns is exactly the union of the
\* normalized targets of its own directives and of the sets its recursive
\* child calls returned; a call that returns early, before it scans, has
\* neither and returns the empty set
C25_UnionOfChildren ==
    /\ (returned.kind = "expanded" /\ returned.lastEvent = Len(events)) =>
          /\ Len(returned.children) = Cardinality(RecursedOf(returned))
          /\ returned.deps = OwnTargets(returned) \cup ChildDeps(returned)
          /\ \A k \in 1..Len(returned.children) : returned.children[k] \subseteq returned.deps
    /\ (returned.kind \in {"circular", "depth"} /\ returned.lastEvent = Len(events)) =>
          /\ returned.children = <<>>
          /\ returned.deps = {}

\* C25 witness: a call has returned a set that holds a path that is a target
\* of one of its own directives and in no child's set, and a path that a
\* child returned and that is no target of its own directives
C25_Witness ==
    /\ returned.kind = "expanded" /\ returned.lastEvent = Len(events)
    /\ returned.children # <<>>
    /\ \E p \in returned.deps : p \in OwnTargets(returned) /\ p \notin ChildDeps(returned)
    /\ \E p \in returned.deps : p \in ChildDeps(returned) /\ p \notin OwnTargets(returned)

(***************************************************************************)
(* C22: diamonds. a.htm includes b.htm and c.htm, which both include       *)
(* d.htm, or includes d.htm twice                                          *)
(***************************************************************************)

PathC == Root \o <<"/","c",".","h","t","m">>

PathD == Root \o <<"/","d",".","h","t","m">>

ToC == <<"/","c",".","h","t","m">>

ToD == <<"d",".","h","t","m">>

MarkA == <<"A">>

MarkB == <<"B">>

MarkC == <<"C">>

MarkD == <<"D">>

\* a.htm: includes b.htm and c.htm; d.htm twice; b.htm and d.htm
DiamondTops == {Page(MarkA, ts) : ts \in {<<ToB, ToC>>, <<ToD, ToD>>, <<ToB, ToD>>}}

\* c.htm: includes d.htm; d.htm and b.htm; d.htm and, closing a cycle, a.htm
DiamondSides == {Page(MarkC, ts) : ts \in {<<ToD>>, <<ToD, ToB>>, <<ToD, ToA>>}}

\* d.htm: no directive; a missing file; n.md
DiamondBottoms == {Page(MarkD, ts) : ts \in {<<>>, <<ToMissing>>, <<ToN>>}}

DiamondFiles(a, c, d) ==
    [p \in {PathA, PathB, PathC, PathD, PathN} |->
        IF p = PathA THEN a
        ELSE IF p = PathB THEN Page(MarkB, <<ToD>>)
        ELSE IF p = PathC THEN c
        ELSE IF p = PathD THEN d
        ELSE PlainText]

DiamondProjects ==
    {[files |-> DiamondFiles(a, c, d), topPath |-> PathA,
      options |-> MakeOptions(maxDepth, types)] :
        a \in DiamondTops, c \in DiamondSides, d \in DiamondBottoms,
        maxDepth \in {2, 3, DefaultMaxDepth}, types \in {TypesNone, TypesHtml}}

DiamondInit == InitFrom(DiamondProjects)

DiamondSpec == DiamondInit /\ [][Next]_vars

\* no file of the project includes a file that includes it, directly or not
Acyclic == files[PathC] # Page(MarkC, <<ToD, ToA>>)

\* the number of positions at which the file at path is included when the
\* file at from is expanded without a limit: the directives from from to path
RECURSIVE PositionsOf(_, _)
PositionsOf(path, from) ==
    IF from = path THEN 1
    ELSE IF from \notin DOMAIN files THEN 0
    ELSE LET matches == ScanDirectives(files[from])
             RECURSIVE Sum(_)
             Sum(k) == IF k = 0 THEN 0
                       ELSE Sum(k - 1) +
                            PositionsOf(path, resolveIncludePath(matches[k].virtualPath,
                                                                 from, options.root))
         IN  Sum(Len(matches))

\* the calls made so far for the file at path
CallsFor(path) ==
    Cardinality({k \in 1..Len(events) : events[k] = Event("call", path, events[k].depth)
                                        /\ events[k].op = "call"})

\* the text d.htm is expanded to
BottomExpanded ==
    IF files[PathD] = Page(MarkD, <<>>) THEN MarkD
    ELSE IF files[PathD] = Page(MarkD, <<ToMissing>>)
    THEN MarkD \o <<"[">> \o FileNotFoundDiagnostic(Root \o <<"/">> \o ToMissing) \o <<"]">>
    ELSE MarkD \o <<"[">> \o PlainText \o <<"]">>

\* C22: a call returns the circular diagnostic only for a file that one of
\* the calls it is nested in is expanding, never for a file that only a
\* sibling branch has expanded; in a project without a cycle, a diamond or a
\* file included twice, no CircularInclude diagnostic is produced, and with
\* markup enabled and no depth limit in the way d.htm is expanded by a call
\* of its own at each position and its expansion stands there in the output
C22_Diamond ==
    /\ IsCircular =>
          \E k \in 1..(Len(stack) - 1) :
              normalizePath(stack[k].filePath) = normalizePath(Top.filePath)
    /\ Acyclic =>
          /\ returned.kind # "circular"
          /\ ~IsCircular
          /\ Done => ~Contains(outcome.code, LitCircular)
    /\ (Done /\ Acyclic /\ options.includeFileTypes = TypesHtml
             /\ options.maxDepth = DefaultMaxDepth) =>
          /\ PositionsOf(PathD, PathA) >= 2
          /\ CallsFor(PathD) = PositionsOf(PathD, PathA)
          /\ CountOccurrences(outcome.code, BottomExpanded) = PositionsOf(PathD, PathA)
          /\ CountOccurrences(outcome.code, LitInclude) = 0

\* C22 witness: a.htm, which includes b.htm and c.htm, both including d.htm,
\* is expanded: d.htm, which holds a directive itself, was expanded by three
\* calls, one below b.htm, one below c.htm and one below b.htm below c.htm
C22_Witness ==
    /\ Done /\ Acyclic
    /\ files[PathA] = Page(MarkA, <<ToB, ToC>>)
    /\ files[PathD] = Page(MarkD, <<ToN>>)
    /\ CallsFor(PathD) = 3
    /\ CountOccurrences(outcome.code, BottomExpanded) = 3

(***************************************************************************)
(* C24: matchesFileType on paths, enabled type names and maps              *)
(***************************************************************************)

LitTpl == <<"t","p","l">>

\* { ...DEFAULT_FILE_TYPE_MAP, tpl: ['.TPL', '.inc'] }: the map the plugin
\* passes on when its fileTypeMap option adds a type
CustomFileTypeMap ==
    (LitTpl :> <<<<".","T","P","L">>, <<".","i","n","c">>>>) @@ DEFAULT_FILE_TYPE_MAP

FileTypeMaps == {DEFAULT_FILE_TYPE_MAP, CustomFileTypeMap}

\* paths: lower-case, upper-case and mixed extensions, no dot at all, a dot
\* in a directory name only, a dot at the end, two dots, the added type,
\* extensions with cased characters outside ASCII
TypePaths ==
    {Root \o <<"/">> \o name :
        name \in {<<"a",".","h","t","m","l">>, <<"A",".","H","T","M","L">>,
                  <<"a",".","H","t","m">>, <<"r","e","a","d","m","e">>,
                  <<"v","1",".","2","/","r","e","a","d","m","e">>, <<"a",".">>,
                  <<"a",".","m","d">>, <<"a",".","m","i","n",".","j","s">>,
                  <<"p",".","T","P","L">>, <<"p",".","t","p","l">>,
                  <<"p",".","i","n","c">>, <<"p",".","I","n","c">>,
                  <<"a",".","H","T","M","U+00C9">>,
                  <<"x",".","M","A","R","U+212A","D","O","W","N">>,
                  <<"x",".","U+0130">>}}

\* enabled type names: none, markup, markup in upper case, text and markup,
\* the added type, a name no map knows, scripts and the added type, a name
\* every object inherits alone, after markup and before markup
TypeLists ==
    {TypesNone, TypesHtml, <<<<"H","T","M","L">>>>, TypesTextHtml, <<LitTpl>>,
     <<<<"n","o","p","e">>>>, <<<<"j","s">>, LitTpl>>,
     TypesInherited, TypesHtmlInherited, TypesInheritedHtml}

NoFiles == [p \in {} |-> <<>>]

\* one path, one list of enabled type names, one map; nothing classified yet
TypeInit ==
    /\ \E filePath \in TypePaths, fileTypes \in TypeLists, fileTypeMap \in FileTypeMaps :
          /\ top = [filePath |-> filePath, content |-> <<>>]
          /\ options = [root |-> Root, maxDepth |-> DefaultMaxDepth,
                        includeFileTypes |-> fileTypes, fileTypeMap |-> fileTypeMap]
    /\ files = NoFiles
    /\ phase = "idle"
    /\ stack = <<>>
    /\ outcome = [code |-> <<>>, deps |-> {}]
    /\ returned = NoReturn
    /\ events = <<>>
    /\ PluginOff

\* matchesFileType(filePath, fileTypes, fileTypeMap) is called and what it
\* returned, or that it threw, noted
MatchesFileTypeCall ==
    /\ response.hook = "none"
    /\ \E result \in {matchesFileType(top.filePath, options.includeFileTypes,
                                      options.fileTypeMap)} :
          response' = [NoResponse EXCEPT
                          !.hook = "matchesFileType",
                          !.path = top.filePath,
                          !.applied = (result = "true"),
                          !.failed = (result = "TypeError")]
    /\ UNCHANGED <<files, options, top, phase, stack, outcome, returned, events>>
    /\ UNCHANGED <<applyOption, stage, loaded, command, server, middleware,
                   dependencyGraph, reverseDependencyMap, pending>>

TypeNext == MatchesFileTypeCall

TypeSpec == TypeInit /\ [][TypeNext]_vars

Classified == response.hook = "matchesFileType"

\* the path has a dot
HasDot(filePath) == \E k \in 1..Len(filePath) : filePath[k] = "."

\* the extension of the path, its leading dot included: what follows the
\* last dot of the path
ExtensionOf(filePath) == SliceFrom(filePath, LastIndexOfDot(filePath))

\* the extension list of the enabled type name
EnabledList(name) == ExtensionsOf(options.fileTypeMap, ToLowerCase(name)).items

\* the extension appears in the list, case-insensitively
ListedIgnoringCase(ext, extensions) ==
    \E k \in 1..Len(extensions) : ToLowerCase(extensions[k]) = ToLowerCase(ext)

\* C24: matchesFileType returns true iff the path has an extension and that
\* extension, compared case-insensitively and with its leading dot, appears
\* in the extension list of at least one enabled type name; a path without a
\* dot and an empty list of enabled type names both yield false
C24_Classification ==
    Classified =>
        /\ response.applied <=>
              /\ HasDot(top.filePath)
              /\ Len(ExtensionOf(top.filePath)) > 1
              /\ \E t \in 1..Len(options.includeFileTypes) :
                    ListedIgnoringCase(ExtensionOf(top.filePath),
                                       EnabledList(options.includeFileTypes[t]))
        /\ ~HasDot(top.filePath) => ~response.applied
        /\ options.includeFileTypes = <<>> => ~response.applied

\* an enabled type name is the name of a property every object inherits
NamesInherited ==
    \E t \in 1..Len(options.includeFileTypes) :
        ToLowerCase(options.includeFileTypes[t]) \in InheritedNames

\* what does hold: the same with the built-in map alone and no enabled type
\* name that every object inherits; and the call throws only with such a name
DefaultMapClassification ==
    /\ (options.fileTypeMap = DEFAULT_FILE_TYPE_MAP /\ ~NamesInherited) => C24_Classification
    /\ (Classified /\ response.failed) => NamesInherited

(***************************************************************************)
(* C28: the two apply filters, on every value of the apply option          *)
(***************************************************************************)

Flags == {"true", "false", "unset"}

\* undefined, the three strings, every object of the three optional flags
AllApplyOptions ==
    {ApplyUndefined}
    \cup {ApplyString(value) : value \in {"serve", "build", "preview"}}
    \cup {ApplyObject(serve, build, preview) : serve \in Flags, build \in Flags, preview \in Flags}

\* the site before Vite is started, the plugin made with any apply option
ApplyInit ==
    /\ files = SiteFiles
    /\ \E types \in {TypesNone, TypesHtml} :
          options = MakeOptions(DefaultMaxDepth, types)
    /\ applyOption \in AllApplyOptions
    /\ top = [filePath |-> IndexHtml, content |-> SiteFiles[IndexHtml]]
    /\ phase = "idle"
    /\ stack = <<>>
    /\ outcome = [code |-> <<>>, deps |-> {}]
    /\ returned = NoReturn
    /\ events = <<>>
    /\ stage = "off"
    /\ loaded = FALSE
    /\ command = "serve"
    /\ server = FALSE
    /\ middleware = FALSE
    /\ dependencyGraph = EmptyMap
    /\ reverseDependencyMap = EmptyMap
    /\ pending = {}
    /\ response = NoResponse

\* Vite is started with one of its commands and filters the plugins
ApplyNext ==
    \/ StartDev
    \/ StartBuild
    \/ StartPreview

ApplySpec == ApplyInit /\ [][ApplyNext]_vars

\* the hooks process HTML: Vite kept the plugin, and the check the hooks make
\* with the command of configResolved passes
ProcessesHtml == loaded /\ shouldApplyInEnvironment(applyOption, command)

\* C28: for every value of the apply option and each of the commands serve
\* and build, the filter normalizeApplyOption hands to Vite admits the
\* command whenever shouldApplyInEnvironment returns true for it, so that
\* the plugin processes HTML in the command iff shouldApplyInEnvironment
\* says it should
C28_FiltersAgree ==
    stage \in {"dev", "build"} =>
        /\ shouldApplyInEnvironment(applyOption, ViteCommand(stage)) => loaded
        /\ ProcessesHtml <=> shouldApplyInEnvironment(applyOption, ViteCommand(stage))

\* what does hold: the plugin never processes HTML in a command for which
\* shouldApplyInEnvironment returns false
NeverAgainstEnvironment ==
    stage \in {"dev", "build"} =>
        (ProcessesHtml => shouldApplyInEnvironment(applyOption, ViteCommand(stage)))

(***************************************************************************)
(* C26: what handleHotUpdate does for a changed file                       *)
(***************************************************************************)

HotUpdateAnswered == response.hook = "handleHotUpdate"

\* C26: for a changed file with no recorded dependent document
\* handleHotUpdate returns nothing, invalidates no module and sends no
\* message; for a changed file with at least one recorded dependent document
\* it returns a non-empty list of modules or sends a full-reload message,
\* never neither, and every module it invalidates is one it returns
C26_HotUpdate ==
    HotUpdateAnswered =>
        LET dependents == Lookup(reverseDependencyMap, normalizePath(response.path))
        IN  /\ dependents = {} =>
                  /\ response.modules = {}
                  /\ response.invalidated = {}
                  /\ ~response.fullReload
            /\ dependents # {} =>
                  /\ response.affected = dependents
                  /\ response.modules # {} \/ response.fullReload
                  /\ response.invalidated \subseteq response.modules
                  /\ response.modules \subseteq dependents

\* C26 witness: a file two documents depend on has changed; the module of
\* neither document was found, and a full-reload message was sent
C26_Witness ==
    /\ HotUpdateAnswered
    /\ Cardinality(response.affected) = 2
    /\ response.modules = {}
    /\ response.fullReload

(***************************************************************************)
(* C27: the preview middleware                                             *)
(***************************************************************************)

PreviewAnswered == response.hook = "preview"

\* the path of the request target, without the query
RequestPath(url) == BeforeFirst(url, "?")

\* the file lies in the build output directory
InBuildOutput(filePath) ==
    HasPrefixAt(filePath, 1, DistRoot(options.root) \o <<"/">>)

\* for every request exactly one of the two: next(), or the response ended;
\* ended only for a GET whose path is / or ends in .html and whose file can
\* be accessed; a failure while processing results in next()
PreviewOneOutcome ==
    PreviewAnswered =>
        /\ response.next # response.applied
        /\ response.applied =>
              /\ response.method = "GET"
              /\ \/ RequestPath(response.path) = <<"/">>
                 \/ EndsWith(RequestPath(response.path), LitDotHtml)
              /\ response.exists
        /\ response.failed => response.next

\* C27: for every request the preview middleware does exactly one of two
\* things, next() or ending the response with the expanded text; it ends the
\* response only for a GET request whose path is / or ends in .html and whose
\* file exists in the build output directory; a failure while processing
\* results in next()
C27_Preview ==
    /\ PreviewOneOutcome
    /\ (PreviewAnswered /\ response.applied) =>
          InBuildOutput(RequestedFile(options.root, response.path))

(***************************************************************************)
(* C29: the dependencies recorded and the text returned by one hook call   *)
(***************************************************************************)

\* what the developer does to an included file while the dev server runs:
\* the wrapper is saved with its two includes, or with an include of
\* index.html in the place of the second
IncludedEdits ==
    {[path |-> WrapperHtml, content |-> Page(<<"W">>, <<ToHeader, ToContent>>)],
     [path |-> WrapperHtml, content |-> Page(<<"W">>, <<ToHeader, ToUpIndex>>)]}

\* an included file is created or changed
WriteIncluded ==
    /\ stage = "dev"
    /\ Interruptible
    /\ \E edit \in IncludedEdits :
          /\ edit.path \in DOMAIN files => files[edit.path] # edit.content
          /\ files' = [p \in DOMAIN files \cup {edit.path} |->
                          IF p = edit.path THEN edit.content ELSE files[p]]
    /\ UNCHANGED <<options, applyOption, stage, loaded, command, server,
                   middleware, dependencyGraph, reverseDependencyMap, pending,
                   response>>
    /\ UNCHANGED callVars

\* an included file is deleted
DeleteIncluded ==
    /\ stage = "dev"
    /\ Interruptible
    /\ WrapperHtml \in DOMAIN files
    /\ files' = [p \in DOMAIN files \ {WrapperHtml} |-> files[p]]
    /\ UNCHANGED <<options, applyOption, stage, loaded, command, server,
                   middleware, dependencyGraph, reverseDependencyMap, pending,
                   response>>
    /\ UNCHANGED callVars

\* the dev server: index.html is transformed while the files it includes are
\* saved, created and deleted
DevNext ==
    \/ StartDev
    \/ TransformIndexHtmlHook
    \/ TransformIndexHtmlAgain
    \/ TransformIndexHtmlRecord
    \/ WriteIncluded
    \/ DeleteIncluded
    \/ Continue
    \/ Next

\* the site has no about.html, and the plugin is made with the apply option
\* left out
DevInit == SiteInit(SiteWithout({AboutHtml}), {ApplyUndefined})

DevSpec == DevInit /\ [][DevNext]_vars

\* the hook has just returned an expansion and recorded dependencies
HookReturned == response.hook = "transformIndexHtml" /\ response.applied

\* dependencyGraph.get(document)
RecordedFor(document) == Lookup(dependencyGraph, normalizePath(document))

\* C29: the dependency set the transformIndexHtml hook records for a document
\* is the dependency set of the expansion whose text it returns, also when
\* included files are changed while the hook is suspended
C29_SameExpansion ==
    HookReturned => RecordedFor(response.path) = response.deps

(***************************************************************************)
(* C30: two top-level calls in progress at the same time. One of them runs *)
(* (top, phase, stack, outcome, returned, events are its state); the other *)
(* is suspended at an await, not yet started or finished, and its state is *)
(* kept in pending, with a note of whether the two were ever both in       *)
(* progress                                                                *)
(***************************************************************************)

\* a.htm includes b.htm and c.htm; c.htm includes d.htm, then b.htm or a.htm;
\* d.htm has no directive or one to a missing file
ConcurrentProjects ==
    {[files |-> DiamondFiles(Page(MarkA, <<ToB, ToC>>), c, d),
      options |-> MakeOptions(maxDepth, types)] :
        c \in DiamondSides,
        d \in {Page(MarkD, <<>>), Page(MarkD, <<ToMissing>>)},
        maxDepth \in {2, DefaultMaxDepth}, types \in {TypesNone, TypesHtml}}

\* the documents of the two calls
ConcurrentDocuments == {<<PathA, PathA>>, <<PathA, PathC>>, <<PathC, PathB>>}

\* the state of a call that is not running now
Suspended(t, ph, st, out, ret, ev, overlapped) ==
    [top |-> t, phase |-> ph, stack |-> st, outcome |-> out, returned |-> ret,
     events |-> ev, overlapped |-> overlapped]

ConcurrentInit ==
    /\ \E project \in ConcurrentProjects, documents \in ConcurrentDocuments :
          /\ files = project.files
          /\ options = project.options
          /\ top = [filePath |-> documents[1], content |-> project.files[documents[1]]]
          /\ pending = {Suspended([filePath |-> documents[2],
                                   content |-> project.files[documents[2]]],
                                  "idle", <<>>, [code |-> <<>>, deps |-> {}],
                                  NoReturn, <<>>, FALSE)}
    /\ phase = "idle"
    /\ stack = <<>>
    /\ outcome = [code |-> <<>>, deps |-> {}]
    /\ returned = NoReturn
    /\ events = <<>>
    /\ applyOption = ApplyUndefined
    /\ stage = "off"
    /\ loaded = FALSE
    /\ command = "serve"
    /\ server = FALSE
    /\ middleware = FALSE
    /\ dependencyGraph = EmptyMap
    /\ reverseDependencyMap = EmptyMap
    /\ response = NoResponse

\* the running call is not started, has returned, or is suspended at one of
\* its awaits: of fs.access, of fs.readFile, of the call it made
AtSuspension ==
    \/ phase # "running"
    \/ AtAccess
    \/ AtRead
    \/ AtResume

\* the event loop goes from one call to the other: the running call is at an
\* await (or not started, or has returned) and the other call goes on
Switch ==
    /\ AtSuspension
    /\ \E other \in pending :
          /\ pending' = {Suspended(top, phase, stack, outcome, returned, events,
                                   \/ other.overlapped
                                   \/ phase = "running" /\ other.phase = "running")}
          /\ top' = other.top
          /\ phase' = other.phase
          /\ stack' = other.stack
          /\ outcome' = other.outcome
          /\ returned' = other.returned
          /\ events' = other.events
    /\ UNCHANGED <<files, options, applyOption, stage, loaded, command, server,
                   middleware, dependencyGraph, reverseDependencyMap, response>>

ConcurrentNext == Next \/ Switch

ConcurrentSpec == ConcurrentInit /\ [][ConcurrentNext]_vars

\* the two calls were in progress at the same time
Overlapped == \E c \in pending : c.overlapped

\* C30: top-level calls that interleave at their suspension points, the files
\* unchanged, do not affect one another: each returns the text and the
\* dependency set it returns when it runs alone, and the chain of every
\* call in progress holds the paths of its own call tree only
C30_Independent ==
    /\ Done => outcome = processSsi(files, top.filePath, top.content, options)
    /\ \A c \in pending :
          c.phase = "done" =>
              c.outcome = processSsi(files, c.top.filePath, c.top.content, options)
    /\ \A k \in 1..Len(stack) :
          /\ stack[k].depth = k - 1
          /\ stack[k].seenIn = NormalizedChain([j \in 1..(k - 1) |-> stack[j].filePath])

\* C30 witness: both calls have returned, they were in progress at the same
\* time, they are for different documents of which one includes the other,
\* and one of the results holds a diagnostic for the cycle it closed
C30_Witness ==
    /\ Done
    /\ Overlapped
    /\ \E c \in pending :
          /\ c.phase = "done"
          /\ c.top.filePath = PathC
          /\ top.filePath = PathA
          /\ Contains(c.outcome.code, LitCircular)
          /\ Contains(outcome.code, MarkC)
          /\ c.outcome.code # outcome.code

====
